---- MODULE Spec2Model ----
(* CuzoNet WhatsApp bot (src/whatsapp-bot/bot.js): the message_create      *)
(* callback, the payment extractor of procesarPago, the field classifier   *)
(* and upsert of registrarCliente, and buscarCliente.                      *)
(* A JavaScript string is a sequence of one-character strings; a number is *)
(* an exact decimal fraction [n, d] (value n/d, d a power of ten).         *)
EXTENDS Integers, Sequences, FiniteSets, TLC

VARIABLES grupoId, mensaje, pc, ctx, llamadas, respuestas, intentos, escapo,
          entrada, salida

vars == <<grupoId, mensaje, pc, ctx, llamadas, respuestas, intentos, escapo,
          entrada, salida>>

(* ------------------------------------------------------------------ *)
(* Bounds                                                               *)
(* ------------------------------------------------------------------ *)
MaxArgs == 3
MaxCampos == 3
MaxRoster == 3
MaxTareas == 2

(* ------------------------------------------------------------------ *)
(* Strings                                                              *)
(* ------------------------------------------------------------------ *)
Digits == <<"0", "1", "2", "3", "4", "5", "6", "7", "8", "9">>

UpperCase == <<"A", "B", "C", "D", "E", "F", "G", "H", "I", "J", "K", "L", "M",
               "N", "O", "P", "Q", "R", "S", "T", "U", "V", "W", "X", "Y", "Z",
               "Á", "É", "Í", "Ó", "Ú", "Ñ">>

LowerCase == <<"a", "b", "c", "d", "e", "f", "g", "h", "i", "j", "k", "l", "m",
               "n", "o", "p", "q", "r", "s", "t", "u", "v", "w", "x", "y", "z",
               "á", "é", "í", "ó", "ú", "ñ">>

Range(f) == {f[i] : i \in DOMAIN f}

IsDigit(c) == c \in Range(Digits)

DigitVal(c) == (CHOOSE i \in DOMAIN Digits : Digits[i] = c) - 1

IsSpace(c) == c = " "

LowerChar(c) ==
    IF c \in Range(UpperCase)
    THEN LowerCase[CHOOSE i \in DOMAIN UpperCase : UpperCase[i] = c]
    ELSE c

toLowerCase(s) == [i \in DOMAIN s |-> LowerChar(s[i])]

startsWith(s, p) == Len(s) >= Len(p) /\ SubSeq(s, 1, Len(p)) = p

\* s.substring(k): the characters from 0-based index k on
substring(s, k) == SubSeq(s, k + 1, Len(s))

\* s.includes(p)
includes(s, p) ==
    \E i \in 1..(Len(s) - Len(p) + 1) : SubSeq(s, i, i + Len(p) - 1) = p

\* s.replace(c, '') with a one-character string pattern: only the first
\* occurrence is removed
RemoveFirst(s, c) ==
    IF \E i \in DOMAIN s : s[i] = c
    THEN LET k == CHOOSE i \in DOMAIN s : s[i] = c /\ \A j \in 1..(i - 1) : s[j] # c
         IN SubSeq(s, 1, k - 1) \o SubSeq(s, k + 1, Len(s))
    ELSE s

\* s.replace(/[...]/g, ''): every character of the class is removed
RECURSIVE RemoveAll(_, _)
RemoveAll(s, cls) ==
    IF s = <<>> THEN <<>>
    ELSE IF Head(s) \in cls THEN RemoveAll(Tail(s), cls)
    ELSE <<Head(s)>> \o RemoveAll(Tail(s), cls)

RECURSIVE trimStart(_)
trimStart(s) ==
    IF s # <<>> /\ IsSpace(Head(s)) THEN trimStart(Tail(s)) ELSE s

RECURSIVE trimEnd(_)
trimEnd(s) ==
    IF s # <<>> /\ IsSpace(s[Len(s)]) THEN trimEnd(SubSeq(s, 1, Len(s) - 1)) ELSE s

trim(s) == trimEnd(trimStart(s))

\* arr.join(sep)
RECURSIVE join(_, _)
join(arr, sep) ==
    IF arr = <<>> THEN <<>>
    ELSE IF Len(arr) = 1 THEN arr[1]
    ELSE arr[1] \o sep \o join(Tail(arr), sep)

\* s.split(c) for a one-character separator: empty pieces are kept
RECURSIVE splitChar(_, _)
splitChar(s, c) ==
    IF \E i \in DOMAIN s : s[i] = c
    THEN LET k == CHOOSE i \in DOMAIN s : s[i] = c /\ \A j \in 1..(i - 1) : s[j] # c
         IN <<SubSeq(s, 1, k - 1)>> \o splitChar(SubSeq(s, k + 1, Len(s)), c)
    ELSE <<s>>

\* s.split(/\s+/): a run of white space is one separator; a leading or
\* trailing run yields an empty first or last piece
RECURSIVE splitWs(_)
splitWs(s) ==
    IF \E i \in DOMAIN s : IsSpace(s[i])
    THEN LET k == CHOOSE i \in DOMAIN s : IsSpace(s[i]) /\ \A j \in 1..(i - 1) : ~IsSpace(s[j])
         IN <<SubSeq(s, 1, k - 1)>> \o splitWs(trimStart(SubSeq(s, k, Len(s))))
    ELSE <<s>>

\* length of the longest run of digits of s starting at position i
RECURSIVE DigitRun(_, _)
DigitRun(s, i) ==
    IF i <= Len(s) /\ IsDigit(s[i]) THEN 1 + DigitRun(s, i + 1) ELSE 0

RECURSIVE DigitsValue(_)
DigitsValue(s) ==
    IF s = <<>> THEN 0 ELSE 10 * DigitsValue(SubSeq(s, 1, Len(s) - 1)) + DigitVal(s[Len(s)])

RECURSIVE Pow10(_)
Pow10(k) == IF k = 0 THEN 1 ELSE 10 * Pow10(k - 1)

(* ------------------------------------------------------------------ *)
(* Numbers                                                              *)
(* ------------------------------------------------------------------ *)
NaN == [n |-> 0, d |-> 0]

RECURSIVE Reduce(_)
Reduce(x) ==
    IF x.d > 1 /\ x.n % 10 = 0 THEN Reduce([n |-> x.n \div 10, d |-> x.d \div 10]) ELSE x

Num(k) == [n |-> k, d |-> 1]

IsNaN(x) == x.d = 0
Gt(x, k) == ~IsNaN(x) /\ x.n > k * x.d
Ge(x, k) == ~IsNaN(x) /\ x.n >= k * x.d
Le(x, k) == ~IsNaN(x) /\ x.n <= k * x.d

\* parseFloat(s): optional sign, digits, optional fraction; the longest
\* such prefix is converted and the rest of the string is ignored; NaN when
\* the prefix holds no digit.  (No input of the model has an exponent part
\* or spells Infinity.)
parseFloat(s) ==
    LET sgn  == IF s # <<>> /\ s[1] \in {"+", "-"} THEN 1 ELSE 0
        neg  == s # <<>> /\ s[1] = "-"
        il   == DigitRun(s, sgn + 1)
        dot  == sgn + il + 1
        fl   == IF dot <= Len(s) /\ s[dot] = "." THEN DigitRun(s, dot + 1) ELSE 0
        ds   == SubSeq(s, sgn + 1, sgn + il) \o SubSeq(s, dot + 1, dot + fl)
        v    == DigitsValue(ds)
    IN IF il + fl = 0 THEN NaN
       ELSE Reduce([n |-> IF neg THEN 0 - v ELSE v, d |-> Pow10(fl)])

(* ------------------------------------------------------------------ *)
(* CONFIG                                                               *)
(* ------------------------------------------------------------------ *)
PREFIJO == <<"!">>

METODOS_PAGO == { <<"e","f","e","c","t","i","v","o">>,
                  <<"t","r","a","n","s","f","e","r","e","n","c","i","a">>,
                  <<"d","e","p","o","s","i","t","o">>,
                  <<"t","a","r","j","e","t","a">> }

REF == <<"r","e","f",":">>

(* ------------------------------------------------------------------ *)
(* procesarPago: extraction of monto, metodoPago and referencia         *)
(* ------------------------------------------------------------------ *)
\* the amount test of one token
MontoDe(tok) == parseFloat(RemoveFirst(RemoveFirst(tok, "Q"), "q"))

EsRef(tok) == startsWith(toLowerCase(tok), REF)
EsMetodo(tok) == toLowerCase(tok) \in METODOS_PAGO
EsMonto(tok) == Gt(MontoDe(tok), 0)

\* the loop without its break: the scan goes on after an amount is found and
\* an earlier token can replace it
RECURSIVE ExtraerLoopSinBreak(_, _, _)
ExtraerLoopSinBreak(args, i, st) ==
    IF i < 1 THEN st
    ELSE LET tok == args[i + 1] IN
         IF EsRef(tok)
         THEN ExtraerLoopSinBreak(args, i - 1, [st EXCEPT !.referencia = substring(tok, 4)])
         ELSE IF EsMetodo(tok)
         THEN ExtraerLoopSinBreak(args, i - 1, [st EXCEPT !.metodoPago = toLowerCase(tok)])
         ELSE IF EsMonto(tok)
         THEN ExtraerLoopSinBreak(args, i - 1, [st EXCEPT !.monto = MontoDe(tok), !.montoIndex = i])
         ELSE ExtraerLoopSinBreak(args, i - 1, st)

\* the loop storing the method token as written, not in lower case
RECURSIVE ExtraerLoopSinMinusculas(_, _, _)
ExtraerLoopSinMinusculas(args, i, st) ==
    IF i < 1 THEN st
    ELSE LET tok == args[i + 1] IN
         IF EsRef(tok)
         THEN ExtraerLoopSinMinusculas(args, i - 1, [st EXCEPT !.referencia = substring(tok, 4)])
         ELSE IF EsMetodo(tok)
         THEN ExtraerLoopSinMinusculas(args, i - 1, [st EXCEPT !.metodoPago = tok])
         ELSE IF EsMonto(tok)
         THEN [st EXCEPT !.monto = MontoDe(tok), !.montoIndex = i]
         ELSE ExtraerLoopSinMinusculas(args, i - 1, st)

\* the loop keeping the first amount found but scanning on to index 1 for
\* method and reference tokens
RECURSIVE ExtraerLoopSigue(_, _, _)
ExtraerLoopSigue(args, i, st) ==
    IF i < 1 THEN st
    ELSE LET tok == args[i + 1] IN
         IF EsRef(tok)
         THEN ExtraerLoopSigue(args, i - 1, [st EXCEPT !.referencia = substring(tok, 4)])
         ELSE IF EsMetodo(tok)
         THEN ExtraerLoopSigue(args, i - 1, [st EXCEPT !.metodoPago = toLowerCase(tok)])
         ELSE IF EsMonto(tok) /\ st.montoIndex = -1
         THEN ExtraerLoopSigue(args, i - 1, [st EXCEPT !.monto = MontoDe(tok), !.montoIndex = i])
         ELSE ExtraerLoopSigue(args, i - 1, st)

\* the loop  for (let i = args.length - 1; i >= 1; i--)  with 0-based i;
\* st holds monto, montoIndex (0-based, -1 when none), metodoPago, referencia
RECURSIVE ExtraerLoop(_, _, _)
ExtraerLoop(args, i, st) ==
    IF i < 1 THEN st
    ELSE LET tok == args[i + 1] IN
         IF EsRef(tok)
         THEN ExtraerLoop(args, i - 1, [st EXCEPT !.referencia = substring(tok, 4)])
         ELSE IF EsMetodo(tok)
         THEN ExtraerLoop(args, i - 1, [st EXCEPT !.metodoPago = toLowerCase(tok)])
         ELSE IF EsMonto(tok)
         THEN [st EXCEPT !.monto = MontoDe(tok), !.montoIndex = i]
         ELSE ExtraerLoop(args, i - 1, st)

ExtraerPago(args) ==
    ExtraerLoop(args, Len(args) - 1,
                [monto |-> NaN, montoIndex |-> -1,
                 metodoPago |-> <<"e","f","e","c","t","i","v","o">>,
                 referencia |-> <<>>])

\* the outcome of the parsing part of procesarPago
ParsePago(args) ==
    IF Len(args) < 2 THEN [error |-> "uso_pago"]
    ELSE LET st == ExtraerPago(args)
             identificador == join(SubSeq(args, 1, st.montoIndex), <<" ">>)
         IN IF IsNaN(st.monto) \/ st.monto.n = 0 \/ st.montoIndex < 1
            THEN [error |-> "monto_no_identificado"]
            ELSE IF identificador = <<>>
            THEN [error |-> "falta_identificador"]
            ELSE [error |-> "", identificador |-> identificador, monto |-> st.monto,
                  montoIndex |-> st.montoIndex,
                  metodoPago |-> st.metodoPago, referencia |-> st.referencia]

(* ------------------------------------------------------------------ *)
(* registrarCliente: splitting and classification of the fields         *)
(* ------------------------------------------------------------------ *)
\* textoCompleto.split('/').map(c => c.trim()).filter(c => c.length > 0)
SepararCampos(textoCompleto) ==
    SelectSeq([i \in DOMAIN splitChar(textoCompleto, "/") |->
                  trim(splitChar(textoCompleto, "/")[i])],
              LAMBDA c : Len(c) > 0)

AllDigits(s) == \A i \in DOMAIN s : IsDigit(s[i])

\* /^(\d{1,3}\.){3}\d{1,3}$/
\* (a, b and c are the places of the three dots)
EsIP(s) ==
    \E a \in 2..4, b \in 4..8, c \in 6..12 :
        /\ b - a \in 2..4 /\ c - b \in 2..4 /\ Len(s) - c \in 1..3
        /\ \A i \in DOMAIN s : IF i \in {a, b, c} THEN s[i] = "." ELSE IsDigit(s[i])

PalabrasPlan == { <<"m","b","p","s">>,
                  <<"b","á","s","i","c","o">>,
                  <<"b","a","s","i","c","o">>,
                  <<"e","s","t","a","n","d","a","r">>,
                  <<"e","s","t","á","n","d","a","r">>,
                  <<"p","r","e","m","i","u","m">>,
                  <<"a","v","a","n","z","a","d","o">>,
                  <<"m","e","g","a">> }

\* /mbps|básico|basico|estandar|estándar|premium|avanzado|mega/i
EsPlan(s) == \E w \in PalabrasPlan : includes(toLowerCase(s), w)

\* the match without the optional white space between digits and mbps
MatchVelSinEspacio(s) ==
    LET low == toLowerCase(s)
        Hit(p) == /\ IsDigit(s[p])
                  /\ LET e == p + DigitRun(s, p)
                     IN startsWith(SubSeq(low, e, Len(low)), <<"m","b","p","s">>)
    IN IF \E p \in DOMAIN s : Hit(p)
       THEN LET p == CHOOSE q \in DOMAIN s : Hit(q) /\ \A r \in 1..(q - 1) : ~Hit(r)
            IN SubSeq(s, p, p + DigitRun(s, p) - 1)
       ELSE <<>>

\* campo.match(/(\d+)\s*mbps/i): the digits of the leftmost match, or <<>>
\* when there is no match
MatchVel(s) ==
    LET low == toLowerCase(s)
        Hit(p) == /\ IsDigit(s[p])
                  /\ LET e == p + DigitRun(s, p)
                     IN startsWith(trimStart(SubSeq(low, e, Len(low))), <<"m","b","p","s">>)
    IN IF \E p \in DOMAIN s : Hit(p)
       THEN LET p == CHOOSE q \in DOMAIN s : Hit(q) /\ \A r \in 1..(q - 1) : ~Hit(r)
            IN SubSeq(s, p, p + DigitRun(s, p) - 1)
       ELSE <<>>

\* the telephone test with a character class that lacks the + sign
EsTelefonoSinMas(s) ==
    LET t == RemoveAll(s, {"-", " "})
    IN Len(t) >= 8 /\ AllDigits(t)

\* /^\d{8,}$/.test(campo.replace(/[-\s\+]/g, ''))
EsTelefono(s) ==
    LET t == RemoveAll(s, {"-", " ", "+"})
    IN Len(t) >= 8 /\ AllDigits(t)

\* /^\d+(\.\d+)?$/
EsNumero(s) ==
    LET p == splitChar(s, ".")
    IN /\ Len(p) \in {1, 2}
       /\ \A i \in DOMAIN p : Len(p[i]) >= 1 /\ AllDigits(p[i])

\* /[a-záéíóúñ]/i
TieneLetra(s) == \E i \in DOMAIN s : LowerChar(s[i]) \in Range(LowerCase)

\* the numeric branch without its last else-if: a small number is taken as
\* the day only while no price is set
ClasificarNumeroSinUltimaRama(st, campo) ==
    LET num == parseFloat(campo) IN
    IF Ge(num, 1) /\ Le(num, 28) /\ st.diaCorteFinal = Num(1) /\ st.precio = Num(0)
    THEN [st EXCEPT !.diaCorteFinal = num]
    ELSE IF Ge(num, 50)
    THEN [st EXCEPT !.precio = num]
    ELSE st

\* the numeric branch (lines 436-454)
ClasificarNumero(st, campo) ==
    LET num == parseFloat(campo) IN
    IF Ge(num, 1) /\ Le(num, 28) /\ st.diaCorteFinal = Num(1) /\ st.precio = Num(0)
    THEN IF Ge(num, 50)
         THEN [st EXCEPT !.precio = num]
         ELSE [st EXCEPT !.diaCorteFinal = num]
    ELSE IF Ge(num, 50)
    THEN [st EXCEPT !.precio = num]
    ELSE IF Ge(num, 1) /\ Le(num, 28) /\ st.diaCorteFinal = Num(1)
    THEN [st EXCEPT !.diaCorteFinal = num]
    ELSE st

\* one iteration with the numeric test placed before the telephone test
ClasificarCampoNumeroAntes(st, campo) ==
    IF EsIP(campo)
    THEN [st EXCEPT !.ip = campo]
    ELSE IF EsPlan(campo)
    THEN IF MatchVel(campo) # <<>>
         THEN [st EXCEPT !.plan = campo,
                         !.velocidadDown = MatchVel(campo) \o <<"M">>,
                         !.velocidadUp = MatchVel(campo) \o <<"M">>]
         ELSE [st EXCEPT !.plan = campo]
    ELSE IF EsNumero(campo)
    THEN ClasificarNumero(st, campo)
    ELSE IF EsTelefono(campo)
    THEN [st EXCEPT !.telefono = campo]
    ELSE IF TieneLetra(campo)
    THEN IF st.direccion # <<>>
         THEN [st EXCEPT !.direccion = st.direccion \o <<",", " ">> \o campo]
         ELSE [st EXCEPT !.direccion = campo]
    ELSE st

\* one iteration of  for (const campo of camposRestantes)
ClasificarCampo(st, campo) ==
    IF EsIP(campo)
    THEN [st EXCEPT !.ip = campo]
    ELSE IF EsPlan(campo)
    THEN IF MatchVel(campo) # <<>>
         THEN [st EXCEPT !.plan = campo,
                         !.velocidadDown = MatchVel(campo) \o <<"M">>,
                         !.velocidadUp = MatchVel(campo) \o <<"M">>]
         ELSE [st EXCEPT !.plan = campo]
    ELSE IF EsTelefono(campo)
    THEN [st EXCEPT !.telefono = campo]
    ELSE IF EsNumero(campo)
    THEN ClasificarNumero(st, campo)
    ELSE IF TieneLetra(campo)
    THEN IF st.direccion # <<>>
         THEN [st EXCEPT !.direccion = st.direccion \o <<",", " ">> \o campo]
         ELSE [st EXCEPT !.direccion = campo]
    ELSE st

PlanDefecto == <<"B","a","s","i","c","o"," ","7","M","b","p","s">>

CamposIniciales ==
    [ip |-> <<>>, plan |-> PlanDefecto, telefono |-> <<>>, direccion |-> <<>>,
     diaCorteFinal |-> Num(1), precio |-> Num(0),
     velocidadDown |-> <<"7","M">>, velocidadUp |-> <<"7","M">>]

RECURSIVE ClasificarLoop(_, _)
ClasificarLoop(st, restantes) ==
    IF restantes = <<>> THEN st
    ELSE ClasificarLoop(ClasificarCampo(st, Head(restantes)), Tail(restantes))

\* campos: the non-empty trimmed segments; campos[1] is the name
ClasificarCampos(campos) ==
    [nombre |-> campos[1]] @@ ClasificarLoop(CamposIniciales, Tail(campos))

\* the outcome of the parsing part of registrarCliente
ParseCliente(args) ==
    LET campos == SepararCampos(join(args, <<" ">>)) IN
    IF Len(campos) < 2 THEN [error |-> "uso_cliente"]
    ELSE LET c == ClasificarCampos(campos) IN
         IF c.nombre = <<>> THEN [error |-> "falta_nombre"]
         ELSE IF c.ip = <<>> THEN [error |-> "falta_ip"]
         ELSE [error |-> ""] @@ c

(* ------------------------------------------------------------------ *)
(* buscarCliente                                                        *)
(* ------------------------------------------------------------------ *)
Acentos == <<"á", "é", "í", "ó", "ú", "ñ">>
SinAcento == <<"a", "e", "i", "o", "u", "n">>

\* .normalize('NFD') followed by the removal of the combining marks, on one
\* character
QuitarTilde(c) ==
    IF c \in Range(Acentos)
    THEN SinAcento[CHOOSE i \in DOMAIN Acentos : Acentos[i] = c]
    ELSE c

\* the normalization that keeps the diacritics
normalizarTextoSinTildes(texto) ==
    trim([i \in DOMAIN texto |-> LowerChar(texto[i])])

normalizarTexto(texto) ==
    trim([i \in DOMAIN texto |-> QuitarTilde(LowerChar(texto[i]))])

\* arr.find(pred): the first element at one of the positions hits where the
\* predicate holds, or Nulo
Nulo == [id |-> 0]

First(arr, hits) ==
    IF hits = {} THEN Nulo ELSE arr[CHOOSE i \in hits : \A j \in hits : i <= j]

\* the lookup matching the identifier against the names as well
FindIPONombre(clientes, ip) ==
    First(clientes, {i \in DOMAIN clientes :
                        \/ clientes[i].ip_address = ip
                        \/ clientes[i].nombre = ip})

\* the lookup comparing another field of the records
FindIPCampoErrado(clientes, ip) ==
    First(clientes, {i \in DOMAIN clientes : clientes[i].telefono = ip})

\* clientes.find((c) => c.ip_address === ip)
FindIP(clientes, ip) ==
    First(clientes, {i \in DOMAIN clientes : clientes[i].ip_address = ip})

\* the exact test on the names as stored, not normalized
FindNombreSinNormalizar(clientes, busqueda) ==
    First(clientes, {i \in DOMAIN clientes : clientes[i].nombre = busqueda})

\* clientes.find((c) => normalizarTexto(c.nombre) === busqueda)
FindNombre(clientes, busqueda) ==
    First(clientes, {i \in DOMAIN clientes : normalizarTexto(clientes[i].nombre) = busqueda})

\* the partial test in one direction only: the name contains the query
CoincidenciasUnSentido(clientes, busqueda) ==
    SelectSeq(clientes, LAMBDA c : includes(normalizarTexto(c.nombre), busqueda))

\* clientes.filter(...) of lines 670-673
Coincidencias(clientes, busqueda) ==
    SelectSeq(clientes, LAMBDA c :
        \/ includes(normalizarTexto(c.nombre), busqueda)
        \/ includes(busqueda, normalizarTexto(c.nombre)))

\* clientes.filter(...) of lines 677-681
PorPalabras(clientes, busqueda) ==
    SelectSeq(clientes, LAMBDA c :
        \A k \in DOMAIN splitWs(busqueda) :
            includes(normalizarTexto(c.nombre), splitWs(busqueda)[k]))

\* The response to GET /api/clientes is
\*   [kind |-> "throw"]                      the request failed
\*   [kind |-> "ok", success, hayClientes, clientes]   a body was received;
\*       hayClientes is FALSE when the body has no clientes member
\* The result is [tipo |-> "error", mensaje], [tipo |-> "null"],
\* [tipo |-> "uno", cliente] or [tipo |-> "varios", lista].
buscarCliente(resp, identificador) ==
    IF resp.kind = "throw" THEN [tipo |-> "error", mensaje |-> "NO_CONEXION"]
    ELSE IF ~resp.success THEN [tipo |-> "error", mensaje |-> "API_ERROR"]
    ELSE IF ~resp.hayClientes THEN [tipo |-> "error", mensaje |-> "TypeError"]
    ELSE IF Len(resp.clientes) = 0 THEN [tipo |-> "error", mensaje |-> "SIN_CLIENTES"]
    ELSE
    LET clientes == resp.clientes
        busqueda == normalizarTexto(identificador)
        exacta == FindNombre(clientes, busqueda)
        coincidencias == Coincidencias(clientes, busqueda)
        porPalabras == PorPalabras(clientes, busqueda)
        Uno(c) == [tipo |-> "uno", cliente |-> c]
    IN IF EsIP(identificador)
       THEN LET cliente == FindIP(clientes, identificador)
            IN IF cliente.id = 0 THEN [tipo |-> "null"] ELSE Uno(cliente)
       ELSE IF exacta.id # 0 THEN Uno(exacta)
       ELSE IF Len(coincidencias) = 0 /\ Len(porPalabras) = 1 THEN Uno(porPalabras[1])
       ELSE IF Len(coincidencias) = 0 /\ Len(porPalabras) > 1
            THEN [tipo |-> "varios", lista |-> porPalabras]
       ELSE IF Len(coincidencias) = 0 THEN [tipo |-> "null"]
       ELSE IF Len(coincidencias) = 1 THEN Uno(coincidencias[1])
       ELSE [tipo |-> "varios", lista |-> coincidencias]

(* ------------------------------------------------------------------ *)
(* Inputs: tokens, messages, registry answers                           *)
(* ------------------------------------------------------------------ *)
tJuan == <<"J","u","a","n">>
tPerez == <<"P","e","r","e","z">>
t200 == <<"2","0","0">>
tQ50 == <<"Q","5","0">>
t0 == <<"0">>
tTransferencia == <<"t","r","a","n","s","f","e","r","e","n","c","i","a">>
tTarjeta == <<"T","a","r","j","e","t","a">>
tRef == <<"r","e","f",":","1","2","3","4","5">>
tREF == <<"R","E","F",":","9">>
tIP18 == <<"1","7","2",".","1","6",".","1",".","1","8">>
tIP50 == <<"1","7","2",".","1","6",".","1",".","5","0">>

sJuanPerez == <<"J","u","a","n"," ","P","e","r","e","z">>
sTelefono == <<"3","2","4","7","2","7","9","2">>
sTelParen == <<"(","5","0","2",")"," ","3","2","4","7","-","2","7","9","2">>
sTelGuion == <<"+","5","0","2"," ","3","2","4","7","-","2","7","9","2">>
sAldea == <<"A","l","d","e","a"," ","C","h","i","n","a","h","a">>
sPlan10 == <<"P","r","e","m","i","u","m"," ","1","0"," ","M","b","p","s">>
s15 == <<"1","5">>
s10 == <<"1","0">>
s60 == <<"6","0">>
s155 == <<"1","5",".","5">>
s30 == <<"3","0">>
sPremium == <<"p","r","e","m","i","u","m">>

\* argument tokens of the pago command
PagoTokens == {tJuan, tPerez, t200, tQ50, t0, tTransferencia, tTarjeta, tRef, tREF, tIP18}

\* segments of the cliente command
CampoTokens == {tIP18, tIP50, sTelefono, sTelParen, sTelGuion, sAldea,
                sPlan10, s10, s60, t200, s155, s30, sPremium}

SeqsUpTo(S, k) == UNION {[1..m -> S] : m \in 0..k}

EjemplosPago == { <<tJuan, tPerez, t200, tTransferencia>>,
                  <<tIP18, t200>>,
                  <<tJuan, t200, tRef>>,
                  <<tJuan, t200, tTransferencia, tRef>>,
                  <<tJuan, tTransferencia, tRef, t200>>,
                  <<tJuan, tTarjeta, tRef, tQ50, tTransferencia, tREF>> }

EjemplosCliente == { <<sJuanPerez, tIP50, sTelefono, sAldea, s15, t200>>,
                     <<sJuanPerez, tIP50, s10, s60>>,
                     <<sJuanPerez, tIP50, s60, s10>>,
                     <<sJuanPerez, tIP50, sTelParen>>,
                     <<tIP18, tIP50>> }

\* the inputs of the extractor and of the classifier taken alone
ArgsPago == SeqsUpTo(PagoTokens, MaxArgs) \cup EjemplosPago
\* (the bound counts the segments that follow the name)
CamposCliente ==
    {<<n>> \o r : n \in {sJuanPerez, t200}, r \in SeqsUpTo(CampoTokens, MaxCampos)}
    \cup EjemplosCliente

\* tokens of the messages handled end to end
MsgPagoTokens == {tJuan, tPerez, t200, tQ50, t0, tTransferencia, tRef, tIP18}
MsgCampoTokens == {tIP50, sTelefono, sAldea, s15, t200}
MsgConsultaTokens == {tJuan, tPerez, tIP18}

vPago == <<"p","a","g","o">>
vCliente == <<"c","l","i","e","n","t","e">>
vConsulta == <<"c","o","n","s","u","l","t","a">>
vAyuda == <<"A","y","u","d","a">>
vHelp == <<"h","e","l","p">>
vOtro == <<"s","a","l","d","o">>

Cmd(verbo, args) == PREFIJO \o join(<<verbo>> \o args, <<" ">>)

Bodies ==
    {Cmd(vPago, a) : a \in SeqsUpTo(MsgPagoTokens, MaxArgs) \cup EjemplosPago}
    \cup {Cmd(vCliente, splitWs(join(c, <<" ","/"," ">>))) :
             c \in {<<sJuanPerez>> \o r : r \in SeqsUpTo(MsgCampoTokens, MaxCampos)}
                   \cup EjemplosCliente}
    \cup {Cmd(vCliente, <<>>)}
    \cup {Cmd(vConsulta, a) : a \in SeqsUpTo(MsgConsultaTokens, MaxArgs)}
    \cup {Cmd(vAyuda, <<>>), Cmd(vHelp, <<tJuan>>), Cmd(vOtro, <<t200>>), PREFIJO,
          Cmd(<<"P","A","G","O">>, <<tJuan, t200>>), Cmd(<<"C","o","n","s","u","l","t","a">>, <<tIP18>>),
          Cmd(<<"C","L","I","E","N","T","E">>, <<tJuan, <<"/">>, tIP50>>),
          <<" ">> \o PREFIJO \o <<" ">> \o vHelp \o <<" ">>,
          vPago \o <<" ">> \o tJuan \o <<" ">> \o t200, <<>>}

GRUPO_ID == "120363419809450940@g.us"
OtroChat == "50212345678@c.us"

Mensajes == [from : {GRUPO_ID, OtroChat}, body : Bodies]

\* registry records
c1 == [id |-> 1, nombre |-> sJuanPerez, ip_address |-> tIP18,
       plan |-> PlanDefecto, telefono |-> <<>>, direccion |-> <<>>,
       dia_corte |-> Num(1), precio_mensual |-> Num(200),
       velocidad_download |-> <<"7","M">>, velocidad_upload |-> <<"7","M">>,
       estado |-> "activo"]
c2 == [id |-> 2, nombre |-> <<"J","u","a","n","a"," ","P","é","r","e","z">>,
       ip_address |-> tIP50,
       plan |-> PlanDefecto, telefono |-> sTelefono, direccion |-> sAldea,
       dia_corte |-> Num(15), precio_mensual |-> Num(200),
       velocidad_download |-> <<"7","M">>, velocidad_upload |-> <<"7","M">>,
       estado |-> "cortado"]
\* a record on a plan that is not the default one
c3 == [id |-> 3, nombre |-> sJuanPerez, ip_address |-> tIP50,
       plan |-> sPlan10, telefono |-> <<>>, direccion |-> <<>>,
       dia_corte |-> Num(1), precio_mensual |-> Num(200),
       velocidad_download |-> <<"1","0","M">>, velocidad_upload |-> <<"1","0","M">>,
       estado |-> "activo"]
\* a record whose name is written like an address (registrarCliente takes
\* the first segment as the name whatever it looks like)
c4 == [id |-> 4, nombre |-> tIP18, ip_address |-> tIP50,
       plan |-> PlanDefecto, telefono |-> <<>>, direccion |-> <<>>,
       dia_corte |-> Num(1), precio_mensual |-> Num(0),
       velocidad_download |-> <<"7","M">>, velocidad_upload |-> <<"7","M">>,
       estado |-> "activo"]
c5 == [id |-> 5, nombre |-> <<"J","U","A","N">>, ip_address |-> tIP18,
       plan |-> PlanDefecto, telefono |-> <<>>, direccion |-> <<>>,
       dia_corte |-> Num(1), precio_mensual |-> Num(150),
       velocidad_download |-> <<"7","M">>, velocidad_upload |-> <<"7","M">>,
       estado |-> "suspendido"]

Rosters == { <<>>, <<c1>>, <<c1, c2>>, <<c1, c3>> }

\* the rosters and the identifiers given to buscarCliente taken alone
RostersResolver == SeqsUpTo({c1, c2, c3, c4, c5}, MaxRoster)

qJuan == <<"j","u","a","n">>
qPerezJuan == <<"P","e","r","e","z"," "," ","J","u","a","n">>
qJuanPerezLopez == <<"J","u","a","n"," ","P","e","r","e","z"," ","L","o","p","e","z">>
qJuanaPerez == <<" ","J","U","A","N","A"," ","P","E","R","E","Z">>
qPedro == <<"P","e","d","r","o">>

\* other spellings of the same names
vJuanPerezMay == <<"J","U","A","N"," ","P","É","R","E","Z">>
vJuanPerezEsp == <<" ","j","u","a","n"," ","p","e","r","e","z"," ">>
vJuanTilde == <<"J","u","á","n">>

Consultas == {sJuanPerez, qJuan, qPerezJuan, qJuanPerezLopez, qJuanaPerez, qPedro,
              tIP18, tIP50}

\* answers to GET /api/clientes
ListResps ==
    { [kind |-> "throw", success |-> FALSE, hayClientes |-> FALSE, clientes |-> <<>>],
      [kind |-> "ok", success |-> FALSE, hayClientes |-> FALSE, clientes |-> <<>>],
      [kind |-> "ok", success |-> TRUE, hayClientes |-> FALSE, clientes |-> <<>>] }
    \cup { [kind |-> "ok", success |-> TRUE, hayClientes |-> TRUE, clientes |-> r] :
             r \in Rosters }

\* answers to POST /api/pago, PUT /api/cliente/<id> and POST /api/cliente:
\* kind "ok" is a received body with its success flag; kind "throw" is a
\* rejected request, with a response body (hayData) or without one; error is
\* the error member of the body, "" when it has none
MutResps ==
    [kind : {"ok"}, success : {TRUE}, hayData : {TRUE}, error : {""}]
    \cup [kind : {"ok"}, success : {FALSE}, hayData : {TRUE}, error : {"", "rechazado"}]
    \cup [kind : {"throw"}, success : {FALSE}, hayData : {TRUE}, error : {"", "rechazado"}]
    \cup [kind : {"throw"}, success : {FALSE}, hayData : {FALSE}, error : {""}]

\* answers to POST /api/pago: the body of a successful answer says whether
\* the payment reactivated the client's service
PagoResps ==
    {r @@ [reactivado |-> b] : r \in MutResps, b \in BOOLEAN} \
        {r @@ [reactivado |-> TRUE] : r \in {x \in MutResps : ~x.success}}

(* ------------------------------------------------------------------ *)
(* Replies and registry calls                                           *)
(* ------------------------------------------------------------------ *)
R(tipo, detalle) == [tipo |-> tipo, detalle |-> detalle]

\* the reply of the catch of the message_create callback (line 163)
ErrorInterno == R("error_interno", "")

\* A reply site is given as the chain of message.reply calls that follow one
\* another when each one rejects: the site itself, the reply of the
\* enclosing catch blocks, and last the reply of the callback's own catch.
\* f is the number of calls of the chain that reject.
Entregadas(cadena, f) == IF f < Len(cadena) THEN <<cadena[f + 1]>> ELSE <<>>

Responder(cadena, f) ==
    /\ respuestas' = respuestas \o Entregadas(cadena, f)
    /\ intentos' = intentos + (IF f < Len(cadena) THEN f + 1 ELSE Len(cadena))
    /\ escapo' = (f = Len(cadena))
    /\ pc' = "done"

GetClientes == [op |-> "GET /api/clientes", id |-> 0, datos |-> [vacio |-> TRUE]]

SinCtx == [cmd |-> "ninguno"]

(* ------------------------------------------------------------------ *)
(* client.on('message_create'): up to the first registry call           *)
(* ------------------------------------------------------------------ *)
\* what the callback does with message m before it first awaits the
\* registry: ignore it, answer it, or issue GET /api/clientes
\* the filter without the group test
IgnoraSinGrupo(m, gid) == ~startsWith(trim(m.body), PREFIJO)

\* lines 131-137: the message is left unanswered when a group is configured
\* and the message is not from it, or when the text lacks the prefix
Ignora(m, gid) ==
    \/ gid # "" /\ m.from # gid
    \/ ~startsWith(trim(m.body), PREFIJO)

\* the verb compared as written
ComandoSinMinusculas(partes) == partes[1]

\* const comando = partes[0].toLowerCase()
Comando(partes) == toLowerCase(partes[1])

\* the argument test of consultarCliente that never fails
FaltanArgumentosNunca(args) == FALSE

\* if (args.length < 1) of consultarCliente
FaltanArgumentos(args) == Len(args) < 1

Despachar(m, gid) ==
    LET texto == trim(m.body)
        partes == splitWs(trim(substring(texto, 1)))
        comando == Comando(partes)
        args == Tail(partes)
        Contestar(tipo) == [accion |-> "responder", cmd |-> comando,
                            cadena |-> <<R(tipo, ""), ErrorInterno>>]
    IN
    IF Ignora(m, gid) THEN [accion |-> "ignorar"]
    ELSE IF comando = vPago
    THEN LET p == ParsePago(args) IN
         IF p.error # "" THEN Contestar(p.error)
         ELSE [accion |-> "esperar", pc |-> "buscar",
               ctx |-> [cmd |-> "pago", args |-> args, p |-> p]]
    ELSE IF comando = vCliente
    THEN LET p == ParseCliente(args) IN
         IF p.error # "" THEN Contestar(p.error)
         ELSE [accion |-> "esperar", pc |-> "verificar",
               ctx |-> [cmd |-> "cliente", args |-> args, p |-> p]]
    ELSE IF comando = vConsulta
    THEN IF FaltanArgumentos(args) THEN Contestar("uso_consulta")
         ELSE [accion |-> "esperar", pc |-> "buscar",
               ctx |-> [cmd |-> "consulta", args |-> args,
                        p |-> [identificador |-> join(args, <<" ">>)]]]
    ELSE IF comando \in {toLowerCase(vAyuda), vHelp} THEN Contestar("ayuda")
    ELSE Contestar("no_reconocido")

\* a message_create event is delivered and handled up to its first await of
\* the registry
Recibir ==
    /\ pc = "idle"
    /\ \E m \in Mensajes :
         \E d \in {Despachar(m, grupoId)} :
         /\ mensaje' = m
         /\ CASE d.accion = "ignorar" ->
                   /\ pc' = "done"
                   /\ ctx' = [cmd |-> "ignorado"]
                   /\ llamadas' = <<>>
                   /\ respuestas' = <<>>
                   /\ intentos' = 0
                   /\ escapo' = FALSE
              [] d.accion = "responder" ->
                   /\ ctx' = [cmd |-> "local"]
                   /\ llamadas' = <<>>
                   /\ \E f \in 0..Len(d.cadena) :
                        /\ respuestas' = Entregadas(d.cadena, f)
                        /\ intentos' = (IF f < Len(d.cadena) THEN f + 1 ELSE Len(d.cadena))
                        /\ escapo' = (f = Len(d.cadena))
                        /\ pc' = "done"
              [] d.accion = "esperar" ->
                   /\ pc' = d.pc
                   /\ ctx' = d.ctx
                   /\ llamadas' = <<GetClientes>>
                   /\ respuestas' = <<>>
                   /\ intentos' = 0
                   /\ escapo' = FALSE
    /\ UNCHANGED <<grupoId, entrada, salida>>

(* ------------------------------------------------------------------ *)
(* procesarPago and consultarCliente after buscarCliente returns        *)
(* ------------------------------------------------------------------ *)
\* the catch blocks answering an empty roster like a client not found
RespuestaErrorBusquedaSinVacio(mensajeError) ==
    IF mensajeError = "NO_CONEXION" THEN R("no_conexion", "")
    ELSE IF mensajeError = "SIN_CLIENTES" THEN R("no_encontrado", "")
    ELSE R("api_error", "")

\* the catch blocks of lines 236-245 and 319-328
RespuestaErrorBusqueda(mensajeError) ==
    IF mensajeError = "NO_CONEXION" THEN R("no_conexion", "")
    ELSE IF mensajeError = "SIN_CLIENTES" THEN R("sin_clientes", "")
    ELSE R("api_error", "")

\* the body of POST /api/pago without the reference of the command
DatosPagoSinReferencia(p, clienteData) ==
    [cliente_id |-> clienteData.id, monto |-> p.monto, metodo_pago |-> p.metodoPago,
     referencia |-> <<>>, notas |-> "Registrado via WhatsApp Bot",
     registrado_por |-> "whatsapp-bot"]

\* the body of POST /api/pago (lines 271-278)
DatosPago(p, clienteData) ==
    [cliente_id |-> clienteData.id, monto |-> p.monto, metodo_pago |-> p.metodoPago,
     referencia |-> p.referencia, notas |-> "Registrado via WhatsApp Bot",
     registrado_por |-> "whatsapp-bot"]

\* GET /api/clientes of buscarCliente returns; the handler goes on to its
\* reply or, for a payment with one resolved client, to POST /api/pago
BuscarDevuelve ==
    /\ pc = "buscar"
    /\ \E resp \in ListResps :
         LET r == buscarCliente(resp, ctx.p.identificador)
             Final(resp1) ==
                 /\ ctx' = [lista |-> resp, res |-> r] @@ ctx
                 /\ llamadas' = llamadas
                 /\ \E f \in 0..2 : Responder(<<resp1, ErrorInterno>>, f)
         IN
         IF r.tipo = "error" THEN Final(RespuestaErrorBusqueda(r.mensaje))
         ELSE IF r.tipo = "null"
         THEN Final(R(IF ctx.cmd = "pago" THEN "no_encontrado" ELSE "no_encontrado_consulta", ""))
         ELSE IF r.tipo = "varios"
         THEN Final(R(IF ctx.cmd = "pago" THEN "varios" ELSE "lista", ""))
         ELSE IF ctx.cmd = "consulta"
         THEN Final(R("info_cliente", ""))
         ELSE /\ ctx' = [lista |-> resp, res |-> r, clienteData |-> r.cliente] @@ ctx
              /\ llamadas' = Append(llamadas,
                     [op |-> "POST /api/pago", id |-> 0, datos |-> DatosPago(ctx.p, r.cliente)])
              /\ pc' = "pagar"
              /\ UNCHANGED <<respuestas, intentos, escapo>>
    /\ UNCHANGED <<grupoId, mensaje, entrada, salida>>

\* POST /api/pago returns (lines 280-302)
PagoDevuelve ==
    /\ pc = "pagar"
    /\ \E resp \in PagoResps :
         LET catch == R("no_conexion_sistema", "")
             reactivado == IF ctx.clienteData.estado \in {"cortado", "suspendido"}
                           THEN "reactivado" ELSE ""
             cadena ==
                 IF resp.kind = "throw" THEN <<catch, ErrorInterno>>
                 ELSE IF resp.success
                 THEN <<R("pago_registrado", reactivado), catch, ErrorInterno>>
                 ELSE <<R("error_registrar",
                          IF resp.error # "" THEN resp.error ELSE "Error desconocido"),
                        catch, ErrorInterno>>
         IN /\ ctx' = [respPago |-> resp] @@ ctx
            /\ \E f \in 0..Len(cadena) : Responder(cadena, f)
    /\ UNCHANGED <<grupoId, mensaje, llamadas, entrada, salida>>

(* ------------------------------------------------------------------ *)
(* registrarCliente after the parsing                                   *)
(* ------------------------------------------------------------------ *)
\* the lookup skipped: the roster fetched is not read
ClienteExistenteSinLeer(resp, ip) == Nulo

\* lines 485-493: the lookup of the classified ip in the fetched roster;
\* a rejected request or a body without success or clientes leaves null
ClienteExistente(resp, ip) ==
    IF resp.kind = "ok" /\ resp.success /\ resp.hayClientes
    THEN FindIP(resp.clientes, ip)
    ELSE Nulo

Opcional(cond, campo) == IF cond THEN campo ELSE <<>>

\* datosActualizar with precio_mensual sent whatever its value
DatosActualizarSiemprePrecio(p) ==
    [nombre |-> p.nombre, plan |-> p.plan,
     velocidad_download |-> p.velocidadDown, velocidad_upload |-> p.velocidadUp,
     dia_corte |-> p.diaCorteFinal, precio_mensual |-> p.precio]
    @@ Opcional(p.telefono # <<>>, [telefono |-> p.telefono])
    @@ Opcional(p.direccion # <<>>, [direccion |-> p.direccion])

\* datosActualizar (lines 498-509)
DatosActualizar(p) ==
    [nombre |-> p.nombre, plan |-> p.plan,
     velocidad_download |-> p.velocidadDown, velocidad_upload |-> p.velocidadUp,
     dia_corte |-> p.diaCorteFinal]
    @@ Opcional(p.telefono # <<>>, [telefono |-> p.telefono])
    @@ Opcional(p.direccion # <<>>, [direccion |-> p.direccion])
    @@ Opcional(Gt(p.precio, 0), [precio_mensual |-> p.precio])

\* the body of POST /api/cliente without the classified direccion
DatosCrearSinDireccion(p) ==
    [nombre |-> p.nombre, ip_address |-> p.ip, plan |-> p.plan,
     telefono |-> p.telefono, direccion |-> <<>>,
     dia_corte |-> p.diaCorteFinal, precio_mensual |-> p.precio,
     velocidad_download |-> p.velocidadDown, velocidad_upload |-> p.velocidadUp]

\* the body of POST /api/cliente (lines 540-550)
DatosCrear(p) ==
    [nombre |-> p.nombre, ip_address |-> p.ip, plan |-> p.plan,
     telefono |-> p.telefono, direccion |-> p.direccion,
     dia_corte |-> p.diaCorteFinal, precio_mensual |-> p.precio,
     velocidad_download |-> p.velocidadDown, velocidad_upload |-> p.velocidadUp]

\* the change report (lines 515-521): the names of the fields listed
Cambios(p, ex) ==
    Opcional(p.nombre # ex.nombre, <<"nombre">>)
    \o Opcional(p.telefono # <<>> /\ p.telefono # ex.telefono, <<"telefono">>)
    \o Opcional(p.direccion # <<>> /\ p.direccion # ex.direccion, <<"direccion">>)
    \o Opcional(p.plan # PlanDefecto /\ p.plan # ex.plan, <<"plan">>)
    \o Opcional(Gt(p.precio, 0) /\ p.precio # ex.precio_mensual, <<"precio_mensual">>)
    \o Opcional(p.diaCorteFinal # ex.dia_corte, <<"dia_corte">>)

\* GET /api/clientes of registrarCliente returns or fails; the handler issues
\* PUT /api/cliente/<id> or POST /api/cliente
VerificarDevuelve ==
    /\ pc = "verificar"
    /\ \E resp \in ListResps :
         LET clienteExistente == ClienteExistente(resp, ctx.p.ip) IN
         /\ ctx' = [lista |-> resp, clienteExistente |-> clienteExistente] @@ ctx
         /\ IF clienteExistente.id # 0
            THEN /\ llamadas' = Append(llamadas,
                        [op |-> "PUT /api/cliente", id |-> clienteExistente.id,
                         datos |-> DatosActualizar(ctx.p)])
                 /\ pc' = "actualizar"
            ELSE /\ llamadas' = Append(llamadas,
                        [op |-> "POST /api/cliente", id |-> 0, datos |-> DatosCrear(ctx.p)])
                 /\ pc' = "crear"
    /\ UNCHANGED <<grupoId, mensaje, respuestas, intentos, escapo, entrada, salida>>

\* the catch of lines 569-576 for a rejected registry request
CatchCliente(resp) ==
    IF resp.hayData
    THEN R("error_http", IF resp.error # "" THEN resp.error ELSE "Error al procesar cliente")
    ELSE R("no_conexion_cliente", "")

\* the same catch for a rejected message.reply: the error has no response
CatchClienteReply == R("no_conexion_cliente", "")

\* PUT /api/cliente/<id> returns (lines 513-537)
ActualizarDevuelve ==
    /\ pc = "actualizar"
    /\ \E resp \in MutResps :
         LET cadena ==
                 IF resp.kind = "throw" THEN <<CatchCliente(resp), ErrorInterno>>
                 ELSE IF resp.success
                 THEN <<[tipo |-> "cliente_actualizado", detalle |-> "",
                         cambios |-> Cambios(ctx.p, ctx.clienteExistente)],
                        CatchClienteReply, ErrorInterno>>
                 ELSE <<R("error_actualizar",
                          IF resp.error # "" THEN resp.error ELSE "Error desconocido"),
                        CatchClienteReply, ErrorInterno>>
         IN /\ ctx' = [respCliente |-> resp] @@ ctx
            /\ \E f \in 0..Len(cadena) : Responder(cadena, f)
    /\ UNCHANGED <<grupoId, mensaje, llamadas, entrada, salida>>

\* POST /api/cliente returns (lines 552-567)
CrearDevuelve ==
    /\ pc = "crear"
    /\ \E resp \in MutResps :
         LET cadena ==
                 IF resp.kind = "throw" THEN <<CatchCliente(resp), ErrorInterno>>
                 ELSE IF resp.success
                 THEN <<R("cliente_registrado", ""), CatchClienteReply, ErrorInterno>>
                 ELSE <<R("error_crear",
                          IF resp.error # "" THEN resp.error ELSE "No se pudo registrar"),
                        CatchClienteReply, ErrorInterno>>
         IN /\ ctx' = [respCliente |-> resp] @@ ctx
            /\ \E f \in 0..Len(cadena) : Responder(cadena, f)
    /\ UNCHANGED <<grupoId, mensaje, llamadas, entrada, salida>>

(* ------------------------------------------------------------------ *)
(* The bot                                                              *)
(* ------------------------------------------------------------------ *)
Init ==
    /\ grupoId \in {GRUPO_ID, ""}
    /\ mensaje = [from |-> "", body |-> <<>>]
    /\ pc = "idle"
    /\ ctx = SinCtx
    /\ llamadas = <<>>
    /\ respuestas = <<>>
    /\ intentos = 0
    /\ escapo = FALSE
    /\ entrada = <<>>
    /\ salida = [error |-> "sin_aplicar"]

\* the callback has returned: its locals are discarded and the bot waits for
\* the next message_create event (an escaped rejection is left as it is)
Retornar ==
    /\ pc = "done"
    /\ ~escapo
    /\ pc' = "idle"
    /\ mensaje' = [from |-> "", body |-> <<>>]
    /\ ctx' = SinCtx
    /\ llamadas' = <<>>
    /\ respuestas' = <<>>
    /\ intentos' = 0
    /\ UNCHANGED <<grupoId, escapo, entrada, salida>>

Next ==
    \/ Recibir
    \/ Retornar
    \/ BuscarDevuelve
    \/ PagoDevuelve
    \/ VerificarDevuelve
    \/ ActualizarDevuelve
    \/ CrearDevuelve

Spec == Init /\ [][Next]_vars

(* ------------------------------------------------------------------ *)
(* The extractor and the classifier taken alone                         *)
(* ------------------------------------------------------------------ *)
InitFn(S) ==
    /\ grupoId = GRUPO_ID
    /\ mensaje = [from |-> "", body |-> <<>>]
    /\ pc = "fn"
    /\ ctx = SinCtx
    /\ llamadas = <<>>
    /\ respuestas = <<>>
    /\ intentos = 0
    /\ escapo = FALSE
    /\ entrada \in S
    /\ salida = [error |-> "sin_aplicar"]

\* procesarPago's parsing applied to the argument tokens in entrada
Extraer ==
    /\ pc = "fn"
    /\ salida' = ParsePago(entrada)
    /\ pc' = "fn_done"
    /\ UNCHANGED <<grupoId, mensaje, ctx, llamadas, respuestas, intentos, escapo, entrada>>

InitExtractor == InitFn(ArgsPago)
SpecExtractor == InitExtractor /\ [][Extraer]_vars

\* registrarCliente's parsing applied to the command text made of the
\* segments in entrada written with " / " between them
Clasificar ==
    /\ pc = "fn"
    /\ salida' = ParseCliente(splitWs(join(entrada, <<" ", "/", " ">>)))
    /\ pc' = "fn_done"
    /\ UNCHANGED <<grupoId, mensaje, ctx, llamadas, respuestas, intentos, escapo, entrada>>

InitClasificador == InitFn(CamposCliente)
SpecClasificador == InitClasificador /\ [][Clasificar]_vars

(* ------------------------------------------------------------------ *)
(* buscarCliente taken alone                                            *)
(* ------------------------------------------------------------------ *)
\* the answers to GET /api/clientes: the failures and every roster
RespsResolver ==
    {r \in ListResps : ~(r.kind = "ok" /\ r.success /\ r.hayClientes)}
    \cup { [kind |-> "ok", success |-> TRUE, hayClientes |-> TRUE, clientes |-> r] :
             r \in RostersResolver }

InitResolver ==
    /\ grupoId = GRUPO_ID
    /\ mensaje = [from |-> "", body |-> <<>>]
    /\ pc = "fn"
    /\ ctx \in {[cmd |-> "buscar", lista |-> r] : r \in RespsResolver}
    /\ llamadas = <<>>
    /\ respuestas = <<>>
    /\ intentos = 0
    /\ escapo = FALSE
    /\ entrada \in Consultas
    /\ salida = [error |-> "sin_aplicar"]

\* buscarCliente applied to the identifier in entrada, the registry
\* answering with ctx.lista
Resolver ==
    /\ pc = "fn"
    /\ salida' = buscarCliente(ctx.lista, entrada)
    /\ pc' = "fn_done"
    /\ UNCHANGED <<grupoId, mensaje, ctx, llamadas, respuestas, intentos, escapo, entrada>>

SpecResolver == InitResolver /\ [][Resolver]_vars

(* ------------------------------------------------------------------ *)
(* registrarCliente against a registry that keeps what it is sent       *)
(* ------------------------------------------------------------------ *)
\* the registry stores a created record with the fields as sent
Almacenar(registro, datos) ==
    Append(registro, [id |-> Len(registro) + 10, estado |-> "activo"] @@ datos)

\* the positions of the records of the registry with an ip_address
ConIPEn(registro, ip) == {i \in DOMAIN registro : registro[i].ip_address = ip}

\* the registry overwrites the fields sent in an update
Modificar(registro, id, datos) ==
    [i \in DOMAIN registro |->
        IF registro[i].id = id THEN datos @@ registro[i] ELSE registro[i]]

\* the answer to GET /api/clientes of a registry holding registro
RespRegistro(registro) ==
    [kind |-> "ok", success |-> TRUE, hayClientes |-> TRUE, clientes |-> registro]

InitUpsert ==
    /\ grupoId = GRUPO_ID
    /\ mensaje = [from |-> "", body |-> <<>>]
    /\ pc = "fn"
    /\ ctx \in {[cmd |-> "upsert", inicial |-> r, registro |-> r] : r \in {<<>>, <<c1>>}}
    /\ llamadas = <<>>
    /\ respuestas = <<>>
    /\ intentos = 0
    /\ escapo = FALSE
    /\ entrada \in CamposCliente
    /\ salida = [error |-> "sin_aplicar"]

\* registrarCliente handles the command made of the segments in entrada, every
\* registry request succeeding; the command is submitted twice
Registrar ==
    /\ pc \in {"fn", "fn2"}
    /\ \E p \in {ParseCliente(splitWs(join(entrada, <<" ", "/", " ">>)))} :
         IF p.error # ""
         THEN /\ salida' = p
              /\ pc' = "fn_done"
              /\ UNCHANGED <<ctx, llamadas>>
         ELSE \E ex \in {ClienteExistente(RespRegistro(ctx.registro), p.ip)} :
              /\ pc' = (IF pc = "fn" THEN "fn2" ELSE "fn_done")
              /\ IF ex.id # 0
                 THEN /\ llamadas' = Append(llamadas,
                             [op |-> "PUT /api/cliente", id |-> ex.id,
                              datos |-> DatosActualizar(p)])
                      /\ ctx' = [ctx EXCEPT !.registro =
                                     Modificar(ctx.registro, ex.id, DatosActualizar(p))]
                      /\ salida' = [error |-> "", tipo |-> "cliente_actualizado",
                                    cambios |-> Cambios(p, ex)]
                 ELSE /\ llamadas' = Append(llamadas,
                             [op |-> "POST /api/cliente", id |-> 0, datos |-> DatosCrear(p)])
                      /\ ctx' = [ctx EXCEPT !.registro = Almacenar(ctx.registro, DatosCrear(p))]
                      /\ salida' = [error |-> "", tipo |-> "cliente_registrado",
                                    cambios |-> <<>>]
    /\ UNCHANGED <<grupoId, mensaje, respuestas, intentos, escapo, entrada>>

SpecUpsert == InitUpsert /\ [][Registrar]_vars

(* ------------------------------------------------------------------ *)
(* Messages handled concurrently against one registry                   *)
(* ------------------------------------------------------------------ *)
\* Every message_create event starts its own run of the async callback; the
\* runs interleave at their awaits of the registry.  ctx.tareas[t] holds
\* the locals of run t, ctx.registro the records of the registry.  The
\* reply calls succeed.
Tareas == 1..MaxTareas

BodiesConcurrentes ==
    { Cmd(vCliente, <<tJuan, tPerez, <<"/">>, tIP50>>),
      Cmd(vConsulta, <<tIP50>>),
      Cmd(vPago, <<tIP50, t200>>),
      Cmd(vAyuda, <<>>) }

MensajesConcurrentes ==
    [from : {GRUPO_ID}, body : BodiesConcurrentes]
    \cup {[from |-> OtroChat, body |-> Cmd(vAyuda, <<>>)]}

\* the answer of a registry that cannot be reached
SinConexion == [kind |-> "throw", success |-> FALSE, hayData |-> FALSE, error |-> "",
                hayClientes |-> FALSE, clientes |-> <<>>]

\* the registry keeps ip_address unique: a create for an ip it holds is
\* rejected
Rechazo == [kind |-> "ok", success |-> FALSE, hayData |-> TRUE, error |-> "rechazado"]
Exito == [kind |-> "ok", success |-> TRUE, hayData |-> TRUE, error |-> ""]

\* the reply of procesarPago and consultarCliente to a resolution that does
\* not lead to a payment (lines 236-267 and 319-358)
RespuestaBusqueda(cmd, r) ==
    IF r.tipo = "error" THEN RespuestaErrorBusqueda(r.mensaje)
    ELSE IF r.tipo = "null"
    THEN R(IF cmd = "pago" THEN "no_encontrado" ELSE "no_encontrado_consulta", "")
    ELSE IF r.tipo = "varios" THEN R(IF cmd = "pago" THEN "varios" ELSE "lista", "")
    ELSE R("info_cliente", "")

\* the reply to the answer of the mutating request of run T (lines 280-302,
\* 513-537, 552-576)
RespuestaMutacion(T, resp) ==
    IF T.pc = "pagar"
    THEN IF resp.kind = "throw" THEN R("no_conexion_sistema", "")
         ELSE IF resp.success
         THEN R("pago_registrado",
                IF T.clienteData.estado \in {"cortado", "suspendido"} THEN "reactivado" ELSE "")
         ELSE R("error_registrar", IF resp.error # "" THEN resp.error ELSE "Error desconocido")
    ELSE IF resp.kind = "throw" THEN CatchCliente(resp)
    ELSE IF T.pc = "actualizar"
    THEN IF resp.success
         THEN [tipo |-> "cliente_actualizado", detalle |-> "",
               cambios |-> Cambios(T.p, T.clienteExistente)]
         ELSE R("error_actualizar", IF resp.error # "" THEN resp.error ELSE "Error desconocido")
    ELSE IF resp.success THEN R("cliente_registrado", "")
         ELSE R("error_crear", IF resp.error # "" THEN resp.error ELSE "No se pudo registrar")

\* run t waits for others before it resumes
EsperaListaConCerrojo(tareas, t) ==
    /\ tareas[t].pc \in {"buscar", "verificar"}
    /\ \A u \in DOMAIN tareas : u # t => tareas[u].pc \in {"idle", "done"}

\* run t is suspended at its await of GET /api/clientes (lines 235, 318,
\* 487, 635) and resumes as soon as the answer arrives
EsperaLista(tareas, t) == tareas[t].pc \in {"buscar", "verificar"}

InitConcurrente ==
    /\ grupoId = GRUPO_ID
    /\ mensaje = [from |-> "", body |-> <<>>]
    /\ pc = "conc"
    /\ ctx \in {[cmd |-> "conc", tareas |-> [t \in Tareas |-> [pc |-> "idle"]],
                  registro |-> r] : r \in {<<>>, <<c1>>}}
    /\ llamadas = <<>>
    /\ respuestas = <<>>
    /\ intentos = 0
    /\ escapo = FALSE
    /\ entrada = <<>>
    /\ salida = [error |-> "sin_aplicar"]

SinCambioFuera == UNCHANGED <<grupoId, mensaje, pc, llamadas, respuestas, intentos,
                              escapo, entrada, salida>>

\* a message_create event starts run t, which goes on to its first await
RecibirT(t) ==
    /\ pc = "conc" /\ ctx.tareas[t].pc = "idle"
    /\ \E m \in MensajesConcurrentes :
         \E d \in {Despachar(m, grupoId)} :
            ctx' = [ctx EXCEPT !.tareas[t] =
                CASE d.accion = "ignorar" ->
                         [pc |-> "done", m |-> m, cmd |-> "ignorado",
                          llamadas |-> <<>>, respuestas |-> <<>>]
                  [] d.accion = "responder" ->
                         [pc |-> "done", m |-> m, cmd |-> "local",
                          llamadas |-> <<>>, respuestas |-> <<d.cadena[1]>>]
                  [] d.accion = "esperar" ->
                         [pc |-> d.pc, m |-> m, llamadas |-> <<GetClientes>>,
                          respuestas |-> <<>>] @@ d.ctx]
    /\ SinCambioFuera

\* the registry answers the roster fetch of run t with the records it holds
\* now, or cannot be reached; the run goes on to its reply or to its
\* mutating request
ListaT(t) ==
    /\ pc = "conc" /\ EsperaLista(ctx.tareas, t)
    /\ \E resp \in {RespRegistro(ctx.registro), SinConexion} :
         \E T \in {[lista |-> resp, registroAlLeer |-> ctx.registro] @@ ctx.tareas[t]} :
            ctx' = [ctx EXCEPT !.tareas[t] =
                IF T.pc = "buscar"
                THEN LET r == buscarCliente(resp, T.p.identificador) IN
                     IF T.cmd = "pago" /\ r.tipo = "uno"
                     THEN [pc |-> "pagar", res |-> r, clienteData |-> r.cliente,
                           llamadas |-> Append(T.llamadas,
                               [op |-> "POST /api/pago", id |-> 0,
                                datos |-> DatosPago(T.p, r.cliente)])] @@ T
                     ELSE [pc |-> "done", res |-> r,
                           respuestas |-> <<RespuestaBusqueda(T.cmd, r)>>] @@ T
                ELSE LET ex == ClienteExistente(resp, T.p.ip) IN
                     IF ex.id # 0
                     THEN [pc |-> "actualizar", clienteExistente |-> ex,
                           llamadas |-> Append(T.llamadas,
                               [op |-> "PUT /api/cliente", id |-> ex.id,
                                datos |-> DatosActualizar(T.p)])] @@ T
                     ELSE [pc |-> "crear", clienteExistente |-> ex,
                           llamadas |-> Append(T.llamadas,
                               [op |-> "POST /api/cliente", id |-> 0,
                                datos |-> DatosCrear(T.p)])] @@ T]
    /\ SinCambioFuera

\* the registry handles the mutating request of run t and answers, or cannot
\* be reached; the run replies and ends
MutacionT(t) ==
    /\ pc = "conc" /\ ctx.tareas[t].pc \in {"pagar", "actualizar", "crear"}
    /\ \E T \in {ctx.tareas[t]} :
         \E resp \in {SinConexion,
                      IF T.pc = "crear" /\ ConIPEn(ctx.registro, T.p.ip) # {}
                      THEN Rechazo ELSE Exito} :
            ctx' = [ctx EXCEPT
                !.tareas[t] = [pc |-> "done", respMutacion |-> resp,
                               respuestas |-> <<RespuestaMutacion(T, resp)>>] @@ T,
                !.registro =
                    IF ~resp.success \/ T.pc = "pagar" THEN @
                    ELSE IF T.pc = "actualizar"
                    THEN Modificar(@, T.clienteExistente.id, DatosActualizar(T.p))
                    ELSE Almacenar(@, DatosCrear(T.p))]
    /\ SinCambioFuera

\* run t has returned; t stands for the run of a later message
RetornarT(t) ==
    /\ pc = "conc" /\ ctx.tareas[t].pc = "done"
    /\ ctx' = [ctx EXCEPT !.tareas[t] = [pc |-> "idle"]]
    /\ SinCambioFuera

NextConcurrente ==
    \/ \E t \in Tareas : RecibirT(t)
    \/ \E t \in Tareas : ListaT(t)
    \/ \E t \in Tareas : MutacionT(t)
    \/ \E t \in Tareas : RetornarT(t)

\* every registry request is answered or fails in the end
SpecConcurrente ==
    /\ InitConcurrente /\ [][NextConcurrente]_vars
    /\ \A t \in Tareas : WF_vars(ListaT(t)) /\ WF_vars(MutacionT(t))

(* ------------------------------------------------------------------ *)
(* Classification followed by resolution                                *)
(* ------------------------------------------------------------------ *)
\* the segments in entrada are classified as registrarCliente does, the
\* record built from the create body is the whole roster, and buscarCliente
\* resolves the classified ip against it
IdaYVuelta ==
    /\ pc = "fn"
    /\ \E p \in {ParseCliente(splitWs(join(entrada, <<" ", "/", " ">>)))} :
         IF p.error # ""
         THEN salida' = p
         ELSE \E reg \in {Almacenar(<<>>, DatosCrear(p))} :
                 salida' = [error |-> "", ip |-> p.ip, registro |-> reg,
                            res |-> buscarCliente(RespRegistro(reg), p.ip)]
    /\ pc' = "fn_done"
    /\ UNCHANGED <<grupoId, mensaje, ctx, llamadas, respuestas, intentos, escapo, entrada>>

InitIdaYVuelta == InitFn(CamposCliente)
SpecIdaYVuelta == InitIdaYVuelta /\ [][IdaYVuelta]_vars

(* ------------------------------------------------------------------ *)
(* buscarCliente on spellings of the same names                         *)
(* ------------------------------------------------------------------ *)
ConsultasNorm == {sJuanPerez, vJuanPerezMay, vJuanPerezEsp, qJuan, vJuanTilde,
                  qPerezJuan, qJuanaPerez, qPedro, tIP18}

\* the record with its name in another spelling of the same normal form
Variante(c) ==
    [c EXCEPT !.nombre = CASE c.id = 1 -> vJuanPerezMay
                           [] c.id = 2 -> qJuanaPerez
                           [] OTHER -> vJuanTilde]

InitNormalizar ==
    /\ grupoId = GRUPO_ID
    /\ mensaje = [from |-> "", body |-> <<>>]
    /\ pc = "fn"
    /\ ctx \in {[cmd |-> "normalizar", lista |-> RespRegistro(r),
                  variante |-> RespRegistro([i \in DOMAIN r |-> Variante(r[i])])] :
                    r \in SeqsUpTo({c1, c2, c5}, MaxRoster)}
    /\ llamadas = <<>>
    /\ respuestas = <<>>
    /\ intentos = 0
    /\ escapo = FALSE
    /\ entrada \in ConsultasNorm \X ConsultasNorm
    /\ salida = [error |-> "sin_aplicar"]

\* buscarCliente applied to the two identifiers of entrada on the roster,
\* and to the first one on the roster with the names respelled
Normalizar ==
    /\ pc = "fn"
    /\ salida' = [error |-> "",
                  a |-> buscarCliente(ctx.lista, entrada[1]),
                  b |-> buscarCliente(ctx.lista, entrada[2]),
                  c |-> buscarCliente(ctx.variante, entrada[1]),
                  n |-> normalizarTexto(entrada[1]),
                  nn |-> normalizarTexto(normalizarTexto(entrada[1]))]
    /\ pc' = "fn_done"
    /\ UNCHANGED <<grupoId, mensaje, ctx, llamadas, respuestas, intentos, escapo, entrada>>

SpecNormalizar == InitNormalizar /\ [][Normalizar]_vars

(* ------------------------------------------------------------------ *)
(* Properties                                                           *)
(* ------------------------------------------------------------------ *)
Efectivo == <<"e","f","e","c","t","i","v","o">>

\* the argument tokens of the message being handled
ArgsMensaje == Tail(splitWs(trim(substring(trim(mensaje.body), 1))))
VerboMensaje == toLowerCase(splitWs(trim(substring(trim(mensaje.body), 1)))[1])

\* the message being handled is in scope and carries the prefix
Aceptado ==
    /\ grupoId = "" \/ mensaje.from = grupoId
    /\ Len(trim(mensaje.body)) >= 1
    /\ trim(mensaje.body)[1] = "!"

Llamadas(op) == {i \in DOMAIN llamadas : llamadas[i].op = op}

C2_NuncaEscapa == ~escapo

\* C3: a payment request is issued only after the resolution gave one
\* record of the fetched roster, and it carries that record's id, a positive
\* monto, a metodo_pago of the fixed set, the referencia of the command and
\* the tag whatsapp-bot; no other outcome of the resolution issues one.
C3_PagoSoloConUnCliente ==
    /\ \A i \in Llamadas("POST /api/pago") :
          LET d == llamadas[i].datos IN
          /\ i = 2 /\ llamadas[1].op = "GET /api/clientes"
          /\ ctx.cmd = "pago" /\ ctx.res.tipo = "uno"
          /\ \E k \in DOMAIN ctx.lista.clientes :
                /\ ctx.lista.clientes[k] = ctx.res.cliente
                /\ ctx.lista.clientes[k].id = d.cliente_id
          /\ d.monto.d > 0 /\ d.monto.n > 0
          /\ d.metodo_pago \in METODOS_PAGO
          /\ d.monto = ctx.p.monto
          /\ d.metodo_pago = ctx.p.metodoPago
          /\ d.referencia = ctx.p.referencia
          /\ ctx.p = ParsePago(ArgsMensaje)
          /\ d.registrado_por = "whatsapp-bot"
    /\ pc = "done" /\ ctx.cmd = "pago" /\ ctx.res.tipo # "uno" =>
          Llamadas("POST /api/pago") = {}
    /\ ctx.cmd # "pago" => Llamadas("POST /api/pago") = {}

C3_Witness ==
    /\ pc = "pagar" /\ Len(llamadas) = 2
    /\ llamadas[2].op = "POST /api/pago"
    /\ llamadas[2].datos.referencia # <<>>
    /\ llamadas[2].datos.metodo_pago # Efectivo

\* C4: registrarCliente issues an update exactly when the fetched roster has
\* a record with the classified ip, and a create only when the roster was
\* fetched successfully and has no such record.
C4_CrearSoloSinRegistro ==
    ctx.cmd = "cliente" /\ pc \in {"actualizar", "crear", "done"} =>
        LET obtenido == ctx.lista.kind = "ok" /\ ctx.lista.success /\ ctx.lista.hayClientes
            existe == obtenido /\ \E k \in DOMAIN ctx.lista.clientes :
                                     ctx.lista.clientes[k].ip_address = ctx.p.ip
        IN /\ Llamadas("PUT /api/cliente") # {} <=> existe
           /\ Llamadas("POST /api/cliente") # {} => obtenido /\ ~existe

(* ---- the extractor ------------------------------------------------- *)
\* the tests of the three rules, on one token
TokRef(tok) == Len(tok) >= 4 /\ toLowerCase(SubSeq(tok, 1, 4)) = <<"r","e","f",":">>
TokMetodo(tok) == \E m \in METODOS_PAGO : toLowerCase(tok) = m
TokMonto(tok) == ~TokRef(tok) /\ ~TokMetodo(tok) /\ MontoDe(tok).d > 0 /\ MontoDe(tok).n > 0

\* 1-based positions of args, after the reserved first one, that qualify as
\* the amount
PosMonto(args) == {i \in 2..Len(args) : TokMonto(args[i])}

Max(S) == CHOOSE x \in S : \A y \in S : y <= x
Min(S) == CHOOSE x \in S : \A y \in S : x <= y

C5_WitnessSinMonto ==
    /\ pc = "done" /\ Aceptado /\ VerboMensaje = vPago /\ Len(ArgsMensaje) >= 2
    /\ PosMonto(ArgsMensaje) = {}
    /\ Len(respuestas) = 1 /\ respuestas[1].tipo = "monto_no_identificado"

\* C6: with the amount at 0-based index k >= 1, identificador is tokens
\* 0..k-1 joined by single spaces, metodo_pago is the (leftmost) method token
\* right of k in lower case, or efectivo, and referencia is the remainder of
\* the (leftmost) ref: token right of k, or empty; the three documented
\* commands give the documented results.
C6_ResultadoExtractor ==
    pc = "fn_done" /\ salida.error = "" =>
        LET k == salida.montoIndex
            derecha == (k + 2)..Len(entrada)
            metodos == {i \in derecha : TokMetodo(entrada[i])}
            refs == {i \in derecha : TokRef(entrada[i])}
        IN /\ k >= 1
           /\ salida.identificador = join(SubSeq(entrada, 1, k), <<" ">>)
           /\ salida.metodoPago =
                 (IF metodos = {} THEN Efectivo ELSE toLowerCase(entrada[Min(metodos)]))
           /\ salida.referencia =
                 (IF refs = {} THEN <<>> ELSE SubSeq(entrada[Min(refs)], 5, Len(entrada[Min(refs)])))
           /\ entrada = <<tJuan, tPerez, t200, tTransferencia>> =>
                 /\ salida.identificador = <<"J","u","a","n"," ","P","e","r","e","z">>
                 /\ salida.monto = Num(200)
                 /\ salida.metodoPago = tTransferencia
           /\ entrada = <<tIP18, t200>> =>
                 /\ salida.identificador = tIP18
                 /\ salida.monto = Num(200)
                 /\ salida.metodoPago = Efectivo
           /\ entrada = <<tJuan, t200, tRef>> =>
                 /\ salida.monto = Num(200)
                 /\ salida.referencia = <<"1","2","3","4","5">>

\* a method and a reference on both sides of the amount
C6_Witness ==
    /\ pc = "fn_done" /\ salida.error = ""
    /\ entrada = <<tJuan, tTarjeta, tRef, tQ50, tTransferencia, tREF>>
    /\ salida.metodoPago = tTransferencia
    /\ salida.referencia = <<"9">>
    /\ salida.montoIndex = 3

\* C7: a ref: or method token left of the amount is not extracted: it is
\* part of identificador, and without such a token right of the amount
\* metodo_pago is efectivo and referencia is empty.
C7_IzquierdaNoSeExtrae ==
    pc = "fn_done" /\ salida.error = "" =>
        LET k == salida.montoIndex
            izquierda == {i \in 1..k : TokMetodo(entrada[i]) \/ TokRef(entrada[i])}
            derecha == (k + 2)..Len(entrada)
        IN \A i \in izquierda :
              /\ includes(salida.identificador, entrada[i])
              /\ Len(salida.identificador) >= Len(join(SubSeq(entrada, 1, i), <<" ">>))
              /\ (\A j \in derecha : ~TokMetodo(entrada[j])) => salida.metodoPago = Efectivo
              /\ (\A j \in derecha : ~TokRef(entrada[j])) => salida.referencia = <<>>

\* a method and a reference stand between the first token and the amount
C7_Witness ==
    /\ pc = "fn_done" /\ salida.error = ""
    /\ \E i, j \in 2..salida.montoIndex : TokMetodo(entrada[i]) /\ TokRef(entrada[j])
    /\ salida.metodoPago = Efectivo /\ salida.referencia = <<>>

(* ---- the classifier ------------------------------------------------ *)
\* the segments after the name that reach the numeric rule
SegNumerico(c) == ~EsIP(c) /\ ~EsPlan(c) /\ ~EsTelefono(c) /\ EsNumero(c)

Valor(c) == parseFloat(c)
EnRangoDia(c) == Valor(c).n >= Valor(c).d /\ Valor(c).n <= 28 * Valor(c).d
EsPrecio(c) == Valor(c).n >= 50 * Valor(c).d

\* positions (in the segments after the name) of the numeric segments that
\* can change dia_corte from its default: in range and not the default itself
PosDia(rest) == {i \in DOMAIN rest : SegNumerico(rest[i]) /\ EnRangoDia(rest[i])
                                       /\ Valor(rest[i]) # Num(1)}
PosPrecio(rest) == {i \in DOMAIN rest : SegNumerico(rest[i]) /\ EsPrecio(rest[i])}

PrecioEsperado(rest) ==
    IF PosPrecio(rest) = {} THEN Num(0) ELSE Valor(rest[Max(PosPrecio(rest))])

\* C8 (as stated): a numeric value >= 50 always overwrites precio; a value
\* in [1,28] becomes dia_corte only while dia_corte is 1 and precio is 0 (no
\* price segment came before it), and is dropped otherwise.
C8_DiaSoloSinPrecio ==
    pc = "fn_done" /\ salida.error = "" =>
        LET rest == Tail(entrada)
            antes == {i \in PosDia(rest) : \A j \in PosPrecio(rest) : j > i}
        IN /\ salida.precio = PrecioEsperado(rest)
           /\ salida.diaCorteFinal = (IF antes = {} THEN Num(1) ELSE Valor(rest[Min(antes)]))

\* C8 (amended): a numeric value >= 50 always overwrites precio; a value in
\* [1,28] becomes dia_corte whenever dia_corte is still 1, whether or not
\* precio is set, and is dropped once dia_corte has been changed; so both
\* [10, 60] and [60, 10] give dia_corte 10 and precio 60.
C8_DiaMientrasEsUno ==
    pc = "fn_done" /\ salida.error = "" =>
        LET rest == Tail(entrada)
        IN /\ salida.precio = PrecioEsperado(rest)
           /\ salida.diaCorteFinal =
                 (IF PosDia(rest) = {} THEN Num(1) ELSE Valor(rest[Min(PosDia(rest))]))
           /\ entrada \in {<<sJuanPerez, tIP50, s10, s60>>, <<sJuanPerez, tIP50, s60, s10>>} =>
                 salida.diaCorteFinal = Num(10) /\ salida.precio = Num(60)

C8_Witness ==
    /\ pc = "fn_done" /\ salida.error = ""
    /\ entrada = <<sJuanPerez, tIP50, s60, s10>>
    /\ salida.diaCorteFinal = Num(10)

\* the last position of rest satisfying P(_), 0 when there is none
Ultimo(rest, P(_)) ==
    IF \E i \in DOMAIN rest : P(rest[i]) THEN Max({i \in DOMAIN rest : P(rest[i])}) ELSE 0

RECURSIVE UnirDireccion(_)
UnirDireccion(segs) ==
    IF segs = <<>> THEN <<>>
    ELSE IF Len(segs) = 1 THEN segs[1]
    ELSE UnirDireccion(SubSeq(segs, 1, Len(segs) - 1)) \o <<",", " ">> \o segs[Len(segs)]

\* C9: segment 0 is nombre; every later segment takes the first rule it
\* matches in the order IP, Plan, Telefono, Numeric, Direccion; a later ip,
\* plan, telefono or precio replaces the earlier one, direccion segments are
\* joined with ", ", and a segment matching no rule changes nothing.
C9_PrimeraReglaGana ==
    pc = "fn_done" /\ salida.error = "" =>
        LET rest == Tail(entrada)
            RIP(c) == EsIP(c)
            RPlan(c) == ~EsIP(c) /\ EsPlan(c)
            RTel(c) == ~EsIP(c) /\ ~EsPlan(c) /\ EsTelefono(c)
            RNum(c) == ~EsIP(c) /\ ~EsPlan(c) /\ ~EsTelefono(c) /\ EsNumero(c)
            RDir(c) == /\ ~EsIP(c) /\ ~EsPlan(c) /\ ~EsTelefono(c) /\ ~EsNumero(c)
                       /\ TieneLetra(c)
            De(P(_), defecto) == IF Ultimo(rest, P) = 0 THEN defecto ELSE rest[Ultimo(rest, P)]
        IN /\ salida.nombre = entrada[1]
           /\ salida.ip = De(RIP, <<>>)
           /\ salida.plan = De(RPlan, PlanDefecto)
           /\ salida.telefono = De(RTel, <<>>)
           /\ salida.precio =
                 (IF Ultimo(rest, LAMBDA c : RNum(c) /\ EsPrecio(c)) = 0 THEN Num(0)
                  ELSE Valor(rest[Ultimo(rest, LAMBDA c : RNum(c) /\ EsPrecio(c))]))
           /\ salida.direccion = UnirDireccion(SelectSeq(rest, RDir))
           /\ entrada = <<sJuanPerez, tIP50, sTelefono, sAldea, s15, t200>> =>
                 /\ salida.ip = tIP50 /\ salida.telefono = sTelefono
                 /\ salida.direccion = sAldea
                 /\ salida.diaCorteFinal = Num(15) /\ salida.precio = Num(200)

\* a plan segment (which has letters), a later ip replacing an earlier one
C9_Witness ==
    /\ pc = "fn_done" /\ salida.error = ""
    /\ entrada = <<t200, tIP18, sPlan10, tIP50>>
    /\ salida.nombre = t200 /\ salida.ip = tIP50 /\ salida.plan = sPlan10
    /\ salida.direccion = <<>> /\ salida.precio = Num(0)

C9_WitnessDireccion ==
    /\ pc = "fn_done" /\ salida.error = ""
    /\ entrada = <<sJuanPerez, sAldea, tIP50, sAldea>>
    /\ salida.direccion = sAldea \o <<",", " ">> \o sAldea

\* the characters of s that are digits
SoloDigitos(s) == SelectSeq(s, IsDigit)

\* C10 (as stated): a segment that is not an IP and has no plan keyword is
\* the telefono exactly when, without its spaces, hyphens, parentheses and a
\* leading +, it is a run of at least 8 digits.
TelSegunSpec(c) ==
    LET sinSigno == IF c # <<>> /\ c[1] = "+" THEN Tail(c) ELSE c
        limpio == SelectSeq(sinSigno, LAMBDA x : x \notin {" ", "-", "(", ")"})
    IN Len(limpio) >= 8 /\ \A i \in DOMAIN limpio : limpio[i] \in Range(Digits)

C10_TelefonoConParentesis ==
    pc = "fn_done" /\ salida.error = "" =>
        LET rest == Tail(entrada)
            u == Ultimo(rest, LAMBDA c : ~EsIP(c) /\ ~EsPlan(c) /\ TelSegunSpec(c))
        IN salida.telefono = (IF u = 0 THEN <<>> ELSE rest[u])

\* C10 (amended): such a segment is the telefono exactly when it consists of
\* digits, spaces, hyphens and + signs only and has at least 8 digits;
\* parentheses are not removed, so (502) 3247-2792 is not a telefono.
TelSegunCodigo(c) ==
    /\ \A i \in DOMAIN c : c[i] \in Range(Digits) \cup {" ", "-", "+"}
    /\ Len(SoloDigitos(c)) >= 8

C10_TelefonoSinParentesis ==
    pc = "fn_done" /\ salida.error = "" =>
        LET rest == Tail(entrada)
            u == Ultimo(rest, LAMBDA c : ~EsIP(c) /\ ~EsPlan(c) /\ TelSegunCodigo(c))
        IN /\ salida.telefono = (IF u = 0 THEN <<>> ELSE rest[u])
           /\ entrada = <<sJuanPerez, tIP50, sTelParen>> =>
                 salida.telefono = <<>> /\ salida.direccion = <<>>

C10_Witness ==
    /\ pc = "fn_done" /\ salida.error = ""
    /\ entrada = <<sJuanPerez, tIP50, sTelParen, sTelGuion>>
    /\ salida.telefono = sTelGuion

(* ---- dotted-quad strings -------------------------------------------- *)
\* the segments of the cliente command being handled
SegmentosMensaje == SepararCampos(join(ArgsMensaje, <<" ">>))

\* C11: a dotted-quad string is treated as an IP wherever it stands: the
\* extractor does not take it as the amount, the classifier takes it neither
\* as nombre nor as part of direccion, and the resolver answers an
\* identifier of this syntax only with the record that has this ip_address.
C11_IPNuncaOtraCosa ==
    /\ ctx.cmd = "pago" => ~EsIP(ArgsMensaje[ctx.p.montoIndex + 1])
    /\ ctx.cmd = "cliente" =>
          /\ ~EsIP(ctx.p.nombre)
          /\ \A i \in DOMAIN SegmentosMensaje :
                EsIP(SegmentosMensaje[i]) => ~includes(ctx.p.direccion, SegmentosMensaje[i])
    /\ ctx.cmd \in {"pago", "consulta"} /\ pc \in {"pagar", "done"}
          /\ EsIP(ctx.p.identificador) =>
             /\ ctx.res.tipo # "varios"
             /\ ctx.res.tipo = "uno" => ctx.res.cliente.ip_address = ctx.p.identificador

(* ---- the resolver --------------------------------------------------- *)
\* the registry answered with a roster that has records
ConRoster == /\ ctx.lista.kind = "ok" /\ ctx.lista.success /\ ctx.lista.hayClientes
             /\ Len(ctx.lista.clientes) > 0

\* case-fold, strip diacritics, trim
Norm(s) == trim([i \in DOMAIN s |-> QuitarTilde(LowerChar(s[i]))])

\* a contains b as a substring
Contiene(a, b) == \E i \in 1..(Len(a) + 1) : \E j \in (i - 1)..Len(a) : SubSeq(a, i, j) = b

\* positions of the roster whose normalized name equals the normalized query
Exactos == {i \in DOMAIN ctx.lista.clientes : Norm(ctx.lista.clientes[i].nombre) = Norm(entrada)}

Sencillo(c) == [tipo |-> "uno", cliente |-> c]

\* C12 (as stated): whenever some record's normalized name equals the
\* normalized query, the result is Single on such a record.
C12_ExactoSiempre ==
    pc = "fn_done" /\ ConRoster /\ Exactos # {} =>
        salida = Sencillo(ctx.lista.clientes[Min(Exactos)])

\* C12 (amended): for a query that is not of dotted-quad syntax, whenever
\* some record's normalized name equals the normalized query the result is
\* Single on the first such record, whatever the other records match.
C12_ExactoPrimero ==
    pc = "fn_done" /\ ConRoster /\ ~EsIP(entrada) /\ Exactos # {} =>
        salida = Sencillo(ctx.lista.clientes[Min(Exactos)])

\* the exact match stands after a record that matches by substring
C12_Witness ==
    /\ pc = "fn_done" /\ entrada = qJuan
    /\ ctx.lista.clientes = <<c1, c2, c5>>
    /\ salida = Sencillo(c5)

\* positions of the roster whose ip_address is the query
ConIP == {i \in DOMAIN ctx.lista.clientes : ctx.lista.clientes[i].ip_address = entrada}

\* C13: for an identifier of dotted-quad syntax and a roster with records,
\* the result is Single on the (first) record with that ip_address, or
\* NotFound when there is none; names are never matched.
C13_SoloPorIP ==
    pc = "fn_done" /\ ConRoster /\ EsIP(entrada) =>
        salida = (IF ConIP = {} THEN [tipo |-> "null"]
                  ELSE Sencillo(ctx.lista.clientes[Min(ConIP)]))

\* a record is named like the query but no record has that ip_address
C13_Witness ==
    /\ pc = "fn_done" /\ entrada = tIP18
    /\ ctx.lista.clientes = <<c4, c2>>
    /\ salida = [tipo |-> "null"]

\* the records passing the bidirectional substring test, and those whose
\* name contains every word of the query
PorSubcadena ==
    SelectSeq(ctx.lista.clientes, LAMBDA c :
        Contiene(Norm(c.nombre), Norm(entrada)) \/ Contiene(Norm(entrada), Norm(c.nombre)))
PorCadaPalabra ==
    SelectSeq(ctx.lista.clientes, LAMBDA c :
        \A k \in DOMAIN splitWs(Norm(entrada)) :
            Contiene(Norm(c.nombre), splitWs(Norm(entrada))[k]))

Segun(lista) ==
    IF Len(lista) = 0 THEN [tipo |-> "null"]
    ELSE IF Len(lista) = 1 THEN Sencillo(lista[1])
    ELSE [tipo |-> "varios", lista |-> lista]

\* C14: for a non-IP identifier without an exact match, one record passing
\* the bidirectional substring test gives Single and several give Multiple;
\* only when none passes is the per-word test applied, giving NotFound,
\* Single or Multiple for zero, one or several records.
C14_SubcadenaLuegoPalabras ==
    pc = "fn_done" /\ ConRoster /\ ~EsIP(entrada) /\ Exactos = {} =>
        salida = (IF Len(PorSubcadena) > 0 THEN Segun(PorSubcadena) ELSE Segun(PorCadaPalabra))

\* the query contains the name of one record
C14_Witness ==
    /\ pc = "fn_done" /\ entrada = qJuanPerezLopez
    /\ ctx.lista.clientes = <<c2, c3>>
    /\ salida = Sencillo(c3)

\* no record passes the substring test and two pass the per-word test
C14_WitnessPalabras ==
    /\ pc = "fn_done" /\ entrada = qPerezJuan
    /\ ctx.lista.clientes = <<c1, c2>>
    /\ salida = [tipo |-> "varios", lista |-> <<c1, c2>>]

(* ---- registry failures ---------------------------------------------- *)
\* the failure of the roster fetch recorded in ctx.lista: "" when a roster
\* with records was received
Fallo ==
    IF ctx.lista.kind = "throw" THEN "transport"
    ELSE IF ~ctx.lista.success THEN "protocol"
    ELSE IF ~ctx.lista.hayClientes THEN "sin_lista"
    ELSE IF Len(ctx.lista.clientes) = 0 THEN "empty" ELSE ""

RespuestasDe(fallo) ==
    CASE fallo = "transport" -> {"no_conexion"}
      [] fallo = "protocol" -> {"api_error"}
      [] fallo = "empty" -> {"sin_clientes"}
      [] OTHER -> {"no_conexion", "api_error", "sin_clientes"}

\* C15: in the payment and the query flow a failed roster fetch is answered
\* with the reply of its own kind (unreachable, empty roster, no success
\* indicator), never with the not-found reply, and no payment is submitted;
\* the not-found reply is given only for a roster that was received.
C15_FalloNoEsNoEncontrado ==
    pc = "done" /\ ctx.cmd \in {"pago", "consulta"} =>
        /\ Fallo # "" =>
              /\ Llamadas("POST /api/pago") = {}
              /\ \A i \in DOMAIN respuestas :
                    respuestas[i].tipo \in RespuestasDe(Fallo) \cup {"error_interno"}
              /\ intentos = 1 => /\ Len(respuestas) = 1
                                 /\ respuestas[1].tipo \in RespuestasDe(Fallo)
        /\ \A i \in DOMAIN respuestas :
              respuestas[i].tipo \in {"no_encontrado", "no_encontrado_consulta"} => Fallo = ""

C15_Witness ==
    /\ pc = "done" /\ ctx.cmd = "pago" /\ Fallo = "empty"
    /\ respuestas = <<R("sin_clientes", "")>>

(* ---- the upsert ----------------------------------------------------- *)
SiempreEnviados == {"nombre", "plan", "velocidad_download", "velocidad_upload", "dia_corte"}

C17_InformeDeCambios ==
    \A i \in DOMAIN respuestas :
        respuestas[i].tipo = "cliente_actualizado" =>
            LET d == llamadas[2].datos
                ex == ctx.clienteExistente
            IN Range(respuestas[i].cambios) = {f \in DOMAIN d : d[f] # ex[f]}

\* the classified fields computed from the segments after the name
RIP(c) == EsIP(c)
RPlan(c) == ~EsIP(c) /\ EsPlan(c)
RTel(c) == ~EsIP(c) /\ ~EsPlan(c) /\ EsTelefono(c)
RDir(c) == ~EsIP(c) /\ ~EsPlan(c) /\ ~EsTelefono(c) /\ ~EsNumero(c) /\ TieneLetra(c)

UltimoDe(rest, S, defecto) == IF S = {} THEN defecto ELSE rest[Max(S)]

\* the digits of the leftmost "<digits> mbps" of s, <<>> when there is none
VelDe(s) ==
    LET low == toLowerCase(s)
        ok == {x \in (DOMAIN s) \X (DOMAIN s) :
                 /\ x[1] <= x[2]
                 /\ \A k \in x[1]..x[2] : s[k] \in Range(Digits)
                 /\ \E m \in (x[2] + 1)..Len(s) :
                       /\ \A k \in (x[2] + 1)..(m - 1) : s[k] = " "
                       /\ SubSeq(low, m, m + 3) = <<"m","b","p","s">>}
    IN IF ok = {} THEN <<>>
       ELSE LET p == Min({x[1] : x \in ok})
            IN SubSeq(s, p, Max({x[2] : x \in {y \in ok : y[1] = p}}))

CrearEsperado ==
    LET rest == Tail(entrada)
        conVel == {i \in DOMAIN rest : RPlan(rest[i]) /\ VelDe(rest[i]) # <<>>}
        vel == IF conVel = {} THEN <<"7","M">> ELSE VelDe(rest[Max(conVel)]) \o <<"M">>
    IN [nombre |-> entrada[1],
        ip_address |-> UltimoDe(rest, {i \in DOMAIN rest : RIP(rest[i])}, <<>>),
        plan |-> UltimoDe(rest, {i \in DOMAIN rest : RPlan(rest[i])},
                          <<"B","a","s","i","c","o"," ","7","M","b","p","s">>),
        telefono |-> UltimoDe(rest, {i \in DOMAIN rest : RTel(rest[i])}, <<>>),
        direccion |-> UnirDireccion(SelectSeq(rest, RDir)),
        dia_corte |-> IF PosDia(rest) = {} THEN Num(1) ELSE Valor(rest[Min(PosDia(rest))]),
        precio_mensual |-> PrecioEsperado(rest),
        velocidad_download |-> vel, velocidad_upload |-> vel]

ConEsaIP(registro, ip) == {i \in DOMAIN registro : registro[i].ip_address = ip}

\* C18: a command submitted again after it was handled (the registry having
\* stored what it was sent) takes the update path for its ip and reports no
\* changes.
C18_ReenvioSinCambios ==
    pc = "fn_done" /\ salida.error = "" =>
        /\ Len(llamadas) = 2
        /\ llamadas[2].op = "PUT /api/cliente"
        /\ \E k \in DOMAIN ctx.registro :
              /\ ctx.registro[k].id = llamadas[2].id
              /\ ctx.registro[k].ip_address = CrearEsperado.ip_address
        /\ salida.tipo = "cliente_actualizado"
        /\ salida.cambios = <<>>

\* created with telefono, direccion and precio, then submitted again
C18_Witness ==
    /\ pc = "fn_done" /\ salida.error = ""
    /\ entrada = <<sJuanPerez, tIP50, sTelefono, sAldea, s15, t200>>
    /\ llamadas[1].op = "POST /api/cliente" /\ llamadas[2].op = "PUT /api/cliente"
    /\ salida.cambios = <<>>

\* C19: a create request is issued when no record of the roster has the
\* classified ip; it carries nombre, the ip and the classified fields, with
\* plan Basico 7Mbps, dia_corte 1, precio_mensual 0 and speeds 7M where the
\* classifier set nothing, and speeds <digits>M after a plan segment with
\* "<digits> mbps".
C19_CrearConDefectos ==
    /\ \A i \in Llamadas("POST /api/cliente") :
          /\ i = 1
          /\ llamadas[i].datos = CrearEsperado
          /\ ConEsaIP(ctx.inicial, CrearEsperado.ip_address) = {}
    /\ pc = "fn2" /\ ConEsaIP(ctx.inicial, CrearEsperado.ip_address) = {} =>
          llamadas[1].op = "POST /api/cliente"

\* a plan segment with a speed and nothing else but the ip: the other fields
\* have their defaults
C19_Witness ==
    /\ pc = "fn2" /\ entrada = <<sJuanPerez, sPlan10, tIP50>>
    /\ ctx.inicial = <<c1>>
    /\ llamadas[1].op = "POST /api/cliente"
    /\ llamadas[1].datos.velocidad_download = <<"1","0","M">>
    /\ llamadas[1].datos.dia_corte = Num(1) /\ llamadas[1].datos.precio_mensual = Num(0)
    /\ llamadas[1].datos.telefono = <<>>

(* ---- the payment acknowledgment -------------------------------------- *)
\* C20: the acknowledgment of a registered payment has the reactivation
\* notice exactly when the answer to the payment request says that the
\* payment reactivated the client.
C20_AvisoSegunRespuesta ==
    \A i \in DOMAIN respuestas :
        respuestas[i].tipo = "pago_registrado" =>
            (respuestas[i].detalle = "reactivado" <=> ctx.respPago.reactivado)

(* ---- registry rejections of a payment ------------------------------- *)
\* C21: a payment rejected by the registry with an error message (in a body
\* without success or in the body of an error response) is answered with
\* that message; the generic cannot-connect reply is given only when the
\* registry could not be reached.  (Stated for handlings whose first reply
\* call succeeds.)
C21_ErrorDelRegistroVerbatim ==
    pc = "done" /\ ctx.cmd = "pago" /\ "respPago" \in DOMAIN ctx /\ intentos = 1 =>
        /\ ctx.respPago.error # "" => respuestas[1].detalle = ctx.respPago.error
        /\ respuestas[1].tipo = "no_conexion_sistema" =>
              ctx.respPago.kind = "throw" /\ ~ctx.respPago.hayData

(* ---- the dispatcher -------------------------------------------------- *)
\* the handling was answered without a registry call by a reply of one of
\* the types S (or, its reply call failing, by the internal-error reply)
Local(S) ==
    /\ ctx.cmd = "local" /\ pc = "done" /\ llamadas = <<>>
    /\ \A i \in DOMAIN respuestas : respuestas[i].tipo \in S \cup {"error_interno"}
    /\ intentos = 1 => Len(respuestas) = 1 /\ respuestas[1].tipo \in S

\* C24: the first token after the prefix, in lower case, selects the
\* handler: pago, cliente, consulta, ayuda/help; any other first token, the
\* empty one included, gets the unrecognized-command reply and no registry
\* call.
C24_VerboEligeManejador ==
    pc # "idle" /\ Aceptado =>
        CASE VerboMensaje = <<"p","a","g","o">> ->
                 \/ ctx.cmd = "pago"
                 \/ Local({"uso_pago", "monto_no_identificado", "falta_identificador"})
          [] VerboMensaje = <<"c","l","i","e","n","t","e">> ->
                 \/ ctx.cmd = "cliente"
                 \/ Local({"uso_cliente", "falta_nombre", "falta_ip"})
          [] VerboMensaje = <<"c","o","n","s","u","l","t","a">> ->
                 \/ ctx.cmd = "consulta"
                 \/ Local({"uso_consulta"})
          [] VerboMensaje \in {<<"a","y","u","d","a">>, <<"h","e","l","p">>} ->
                 Local({"ayuda"})
          [] OTHER -> Local({"no_reconocido"})

\* a verb in capitals selects the payment handler
C24_Witness ==
    /\ pc = "buscar" /\ ctx.cmd = "pago" /\ Aceptado
    /\ splitWs(trim(substring(trim(mensaje.body), 1)))[1] = <<"P","A","G","O">>

\* the empty first token
C24_WitnessVacio ==
    /\ pc = "done" /\ Aceptado /\ trim(mensaje.body) = <<"!">>
    /\ respuestas = <<R("no_reconocido", "")>>

Mutaciones == {"POST /api/pago", "PUT /api/cliente", "POST /api/cliente"}

\* C25: the registry calls of one handling are a prefix of [GET
\* /api/clientes, one mutating call]; the mutating call is issued only once
\* the roster fetch has returned; nothing is called twice; consulta and
\* ayuda issue no mutating call; a command failing parsing or validation is
\* answered with no registry call.
C25_ProtocoloDeLlamadas ==
    /\ Len(llamadas) <= 2
    /\ Len(llamadas) >= 1 => llamadas[1].op = "GET /api/clientes"
    /\ Len(llamadas) = 2 =>
          /\ llamadas[2].op \in Mutaciones
          /\ "lista" \in DOMAIN ctx
          /\ ctx.cmd = "pago" <=> llamadas[2].op = "POST /api/pago"
          /\ ctx.cmd \in {"pago", "cliente"}
    /\ pc \in {"buscar", "verificar"} => Len(llamadas) = 1
    /\ pc # "idle" /\ Aceptado =>
          /\ VerboMensaje \in {<<"c","o","n","s","u","l","t","a">>, <<"a","y","u","d","a">>,
                                <<"h","e","l","p">>} => Len(llamadas) <= 1
          /\ VerboMensaje = <<"p","a","g","o">>
                /\ (Len(ArgsMensaje) < 2 \/ PosMonto(ArgsMensaje) = {}) => llamadas = <<>>
          /\ VerboMensaje = <<"c","o","n","s","u","l","t","a">> /\ ArgsMensaje = <<>> =>
                llamadas = <<>>
          /\ VerboMensaje = <<"c","l","i","e","n","t","e">>
                /\ (Len(SegmentosMensaje) < 2
                    \/ \A i \in 2..Len(SegmentosMensaje) : ~EsIP(SegmentosMensaje[i])) =>
                llamadas = <<>>

\* a payment submitted after the roster fetch
C25_Witness ==
    /\ pc = "done" /\ ctx.cmd = "pago" /\ Len(llamadas) = 2
    /\ llamadas[1].op = "GET /api/clientes" /\ llamadas[2].op = "POST /api/pago"
    /\ ctx.respPago.kind = "throw"

(* ---- several candidates ---------------------------------------------- *)
\* the positions of the roster that match the identifier q at the stage that
\* decides: the ip_address for a dotted quad; else the equal normalized
\* names, or without any the names passing the substring test, or without
\* any the names containing every word
CandidatosDe(clientes, q) ==
    LET exactos == {i \in DOMAIN clientes : Norm(clientes[i].nombre) = Norm(q)}
        parciales == {i \in DOMAIN clientes :
                         \/ Contiene(Norm(clientes[i].nombre), Norm(q))
                         \/ Contiene(Norm(q), Norm(clientes[i].nombre))}
        palabras == {i \in DOMAIN clientes :
                         \A k \in DOMAIN splitWs(Norm(q)) :
                             Contiene(Norm(clientes[i].nombre), splitWs(Norm(q))[k])}
    IN IF EsIP(q) THEN {i \in DOMAIN clientes : clientes[i].ip_address = q}
       ELSE IF exactos # {} THEN exactos
       ELSE IF parciales # {} THEN parciales
       ELSE palabras

\* C28: when more than one record matches the identifier at the deciding
\* stage (records of equal normalized name included) the result is
\* Multiple and no payment is submitted; Single is returned only when
\* exactly one record matches.
C28_NuncaAdivina ==
    ctx.cmd \in {"pago", "consulta"} /\ pc \in {"pagar", "done"} /\ ctx.res.tipo # "error" =>
        LET n == Cardinality(CandidatosDe(ctx.lista.clientes, ctx.p.identificador))
        IN /\ n > 1 => ctx.res.tipo = "varios" /\ Llamadas("POST /api/pago") = {}
           /\ ctx.res.tipo = "uno" => n = 1

(* ---- round trip and normalization ----------------------------------- *)
\* C22: for a command that classifies successfully, resolving the
\* classified ip against the roster made of the one record built from the
\* classification gives Single on that record.
C22_IdaYVuelta ==
    pc = "fn_done" /\ salida.error = "" =>
        /\ Len(salida.registro) = 1
        /\ salida.registro[1].ip_address = CrearEsperado.ip_address
        /\ salida.registro[1].nombre = entrada[1]
        /\ salida.res = Sencillo(salida.registro[1])

\* the name itself is written like an address
C22_Witness ==
    /\ pc = "fn_done" /\ salida.error = ""
    /\ entrada = <<tIP18, tIP50>>
    /\ salida.res.tipo = "uno" /\ salida.res.cliente.ip_address = tIP50

\* the ids of the records of a resolution result, in order
Ids(res) ==
    IF res.tipo = "uno" THEN <<res.cliente.id>>
    ELSE IF res.tipo = "varios" THEN [i \in DOMAIN res.lista |-> res.lista[i].id]
    ELSE <<>>

\* C23: two identifiers (neither a dotted quad) of the same normal form
\* give the same result on every roster; respelling the roster's names
\* within their normal form leaves the kind of result and the records
\* matched unchanged; normalizing twice is normalizing once.
C23_InsensibleALaEscritura ==
    pc = "fn_done" =>
        /\ salida.nn = salida.n
        /\ salida.n = Norm(entrada[1])
        /\ ~EsIP(entrada[1]) /\ ~EsIP(entrada[2]) /\ Norm(entrada[1]) = Norm(entrada[2]) =>
              salida.a = salida.b
        /\ ~EsIP(entrada[1]) =>
              salida.c.tipo = salida.a.tipo /\ Ids(salida.c) = Ids(salida.a)

\* capitals and an accent against plain lower case, one record found
C23_Witness ==
    /\ pc = "fn_done" /\ entrada = <<vJuanPerezMay, vJuanPerezEsp>>
    /\ ctx.lista.clientes = <<c2, c1>>
    /\ salida.a = Sencillo(c1) /\ salida.b = Sencillo(c1)
    /\ salida.c.tipo = "uno" /\ salida.c.cliente.id = 1

(* ---- ranges of dia_corte and precio_mensual -------------------------- *)
\* C30: every create or update request has a dia_corte that is an integer
\* of 1..28 and, when sent, a precio_mensual >= 0.
C30_RangosDeDiaYPrecio ==
    \A i \in Llamadas("PUT /api/cliente") \cup Llamadas("POST /api/cliente") :
        LET d == llamadas[i].datos
        IN /\ d.dia_corte.d = 1 /\ d.dia_corte.n >= 1 /\ d.dia_corte.n <= 28
           /\ "precio_mensual" \in DOMAIN d =>
                 d.precio_mensual.d >= 1 /\ d.precio_mensual.n >= 0

(* ------------------------------------------------------------------ *)
(* Properties of the concurrent handling                                *)
(* ------------------------------------------------------------------ *)
EnCurso(T) == T.pc \in {"buscar", "verificar", "pagar", "actualizar", "crear"}
ConRegistro(T) == T.pc \in {"pagar", "actualizar", "crear"}
                  \/ (T.pc = "done" /\ T.cmd \in {"pago", "consulta", "cliente"})

\* C26: a message accepted by the handler gets its terminal reply whatever
\* the other messages in flight do, as long as every registry request is
\* answered or fails and the replies succeed
C26_CadaMensajeTermina ==
    \A t \in Tareas :
        EnCurso(ctx.tareas[t])
            ~> (ctx.tareas[t].pc = "done" /\ Len(ctx.tareas[t].respuestas) = 1)

\* one message has its reply while another one still waits for the registry
C26_Witness ==
    \E t, u \in Tareas :
        /\ ctx.tareas[t].pc = "done" /\ ctx.tareas[t].cmd = "cliente"
        /\ Len(ctx.tareas[t].respuestas) = 1
        /\ EnCurso(ctx.tareas[u])

\* C27: every command that needs the registry fetches the roster itself,
\* first, and decides on the records the registry held at that fetch: a
\* command after a completed mutation sees its result
C27_ListaPropiaYFresca ==
    \A t \in Tareas :
        LET T == ctx.tareas[t] IN
        /\ EnCurso(T) => T.llamadas[1] = GetClientes
        /\ ConRegistro(T) =>
              /\ T.llamadas[1] = GetClientes
              /\ \A i \in 2..Len(T.llamadas) : T.llamadas[i] # GetClientes
              /\ T.lista.kind = "ok" =>
                    /\ T.lista.clientes = T.registroAlLeer
                    /\ T.cmd = "cliente" =>
                          /\ (T.llamadas[2].op = "PUT /api/cliente")
                                <=> (ConIPEn(T.registroAlLeer, T.p.ip) # {})
                          /\ T.llamadas[2].op = "PUT /api/cliente" =>
                                T.llamadas[2].id
                                  \in {T.registroAlLeer[i].id :
                                          i \in ConIPEn(T.registroAlLeer, T.p.ip)}
                    /\ T.cmd \in {"pago", "consulta"} /\ T.registroAlLeer # <<>> =>
                          (T.res.tipo = "uno")
                            <=> (ConIPEn(T.registroAlLeer, T.p.identificador) # {})

\* a lookup resolves the record a command completed before it has created
C27_Witness ==
    \E t \in Tareas :
        LET T == ctx.tareas[t] IN
        /\ T.pc = "done" /\ T.cmd = "consulta"
        /\ T.res.tipo = "uno" /\ T.res.cliente.id >= 10
        /\ T.respuestas = <<R("info_cliente", "")>>

\* C29: of the create commands for one ip in flight together, at most one
\* issues POST /api/cliente
C29_UnSoloCrear ==
    \A t, u \in Tareas :
        (t # u /\ ctx.tareas[t].pc = "crear" /\ ctx.tareas[u].pc = "crear")
            => ctx.tareas[t].p.ip # ctx.tareas[u].p.ip

====
